---- MODULE Spec2Model ----
(***************************************************************************)
(* State-machine model of the esdelcarajo back-end services:               *)
(*   ProductsService, CategoriesService, AddressService, CartService and   *)
(*   OrdersService, over the relational store they share.                  *)
(*                                                                         *)
(* Every service method is one action (a request runs to completion).      *)
(* A row id is the index of the row in its table (tables only grow, rows   *)
(* are soft-deleted), except cart items, which are hard-deleted and carry  *)
(* a fresh id drawn from a counter.  Text is a sequence of characters.     *)
(* Time is counted in days.                                                *)
(***************************************************************************)
EXTENDS Integers, Sequences, FiniteSets, TLC

VARIABLES
    now,            \* the clock read by new Date()
    last,           \* the response of the last request
    categories,     \* Category table
    subcategories,  \* Subcategory table
    products,       \* Product table
    variants,       \* ProductVariant table
    addresses,      \* Address table
    carts,          \* Cart table: the users that own a cart (one per user)
    cartItems,      \* CartItem table
    nextCartItemId, \* next fresh CartItem id
    orders,         \* Order table, each row with its OrderItem rows
    slugIn,         \* input of a generateSlug evaluation
    slugOut,        \* its outputs
    images,         \* ProductImage table
    favorites,      \* Favorite table
    nextFavoriteId, \* next fresh Favorite id
    inflight        \* requests under way, statement by statement, per caller

vars == <<now, last, categories, subcategories, products, variants, addresses,
          carts, cartItems, nextCartItemId, orders, slugIn, slugOut, images,
          favorites, nextFavoriteId, inflight>>

catalogVars == <<categories, subcategories, products, variants>>
cartVars == <<carts, cartItems, nextCartItemId>>
slugVars == <<slugIn, slugOut>>
shelfVars == <<images, favorites, nextFavoriteId, inflight>>

----------------------------------------------------------------------------
(* Bounds of the model *)

MaxNameLen == 4
MaxAddresses == 3
MaxCategories == 1
MaxProducts == 2
MaxVariants == 2
MaxStock == 2
MaxCartItems == 2
MaxOrders == 1
MaxSubcategories == 2
MaxImages == 1
MaxFavorites == 2

----------------------------------------------------------------------------
(* Generic helpers *)

Users == {"u1", "u2"}

\* The JavaScript object spread {...row, ...dto}: fields present in dto win.
Spread(row, dto) ==
    [f \in DOMAIN row |-> IF f \in DOMAIN dto THEN dto[f] ELSE row[f]]

Has(dto, f) == f \in DOMAIN dto

RowIds(table) == 1..Len(table)

\* table[id] replaced by row
Put(table, id, row) == [table EXCEPT ![id] = row]

----------------------------------------------------------------------------
(* generateSlug: text is a sequence of characters.  The alphabet holds one *)
(* or two characters of every class the function distinguishes.            *)

LowerLetters == {"a", "b", "e"}
UpperLetters == {"A", "B"}
Digits == {"1"}
\* U+00E9 and U+00C9: letters with a canonical decomposition
Precomposed == {"e_acute", "E_ACUTE"}
\* U+0301, inside the range U+0300..U+036F
CombiningMarks == {"COMBINING_ACUTE"}
Others == {" ", "-", "!"}

InputAlphabet == {"a", "B", "1", "e_acute", "E_ACUTE", "COMBINING_ACUTE", " ", "-", "!"}

\* String.prototype.toLowerCase, character by character
LowerChar(c) ==
    CASE c = "A" -> "a"
      [] c = "B" -> "b"
      [] c = "E_ACUTE" -> "e_acute"
      [] OTHER -> c

toLowerCase(s) == [i \in 1..Len(s) |-> LowerChar(s[i])]

\* canonical decomposition of one character
DecomposeChar(c) ==
    CASE c = "e_acute" -> <<"e", "COMBINING_ACUTE">>
      [] c = "E_ACUTE" -> <<"E", "COMBINING_ACUTE">>
      [] OTHER -> <<c>>

RECURSIVE normalizeNFD(_)
normalizeNFD(s) ==
    IF s = <<>> THEN <<>> ELSE DecomposeChar(Head(s)) \o normalizeNFD(Tail(s))

\* .replace(/[\u0300-\u036f]/g, '')
stripCombining(s) == SelectSeq(s, LAMBDA c : c \notin CombiningMarks)

IsSlugAlnum(c) == c \in LowerLetters \cup Digits

\* Mutation: the pattern without '+', every character replaced on its own.
RECURSIVE collapseEachChar(_)
collapseEachChar(s) ==
    IF s = <<>> THEN <<>>
    ELSE (IF IsSlugAlnum(Head(s)) THEN <<Head(s)>> ELSE <<"-">>)
         \o collapseEachChar(Tail(s))

\* .replace(/[^a-z0-9]+/g, '-'): each maximal run of other characters
\* becomes one hyphen
RECURSIVE collapseNonAlnum(_)
collapseNonAlnum(s) ==
    IF s = <<>> THEN <<>>
    ELSE IF IsSlugAlnum(Head(s)) THEN <<Head(s)>> \o collapseNonAlnum(Tail(s))
    ELSE IF Len(s) > 1 /\ ~IsSlugAlnum(s[2]) THEN collapseNonAlnum(Tail(s))
    ELSE <<"-">> \o collapseNonAlnum(Tail(s))

\* .replace(/(^-|-$)/g, ''): one hyphen at the start, then one at the end
trimHyphens(s) ==
    LET a == IF s # <<>> /\ Head(s) = "-" THEN Tail(s) ELSE s
    IN  IF a # <<>> /\ a[Len(a)] = "-" THEN SubSeq(a, 1, Len(a) - 1) ELSE a

\* ProductsService.generateSlug
generateSlug(name) ==
    trimHyphens(collapseNonAlnum(stripCombining(normalizeNFD(toLowerCase(name)))))

\* CategoriesService.generateSlug
categoryGenerateSlug(name) ==
    trimHyphens(collapseNonAlnum(stripCombining(normalizeNFD(toLowerCase(name)))))

RECURSIVE SeqsUpTo(_, _)
SeqsUpTo(S, n) ==
    IF n = 0 THEN {<<>>}
    ELSE LET shorter == SeqsUpTo(S, n - 1)
         IN  shorter \cup {Append(s, c) : s \in {t \in shorter : Len(t) = n - 1}, c \in S}

SlugInputs == SeqsUpTo(InputAlphabet, MaxNameLen)

NoSlug == [done |-> {}, product |-> <<>>, category |-> <<>>]

\* One evaluation of ProductsService.generateSlug on the input
SlugOfProduct ==
    /\ "product" \notin slugOut.done
    /\ slugOut' = [slugOut EXCEPT !.done = @ \cup {"product"},
                                  !.product = generateSlug(slugIn)]
    /\ UNCHANGED <<now, last, catalogVars, addresses, cartVars, orders, slugIn, shelfVars>>

\* One evaluation of CategoriesService.generateSlug on the input
SlugOfCategory ==
    /\ "category" \notin slugOut.done
    /\ slugOut' = [slugOut EXCEPT !.done = @ \cup {"category"},
                                  !.category = categoryGenerateSlug(slugIn)]
    /\ UNCHANGED <<now, last, catalogVars, addresses, cartVars, orders, slugIn, shelfVars>>

----------------------------------------------------------------------------
(* CategoriesService *)

\* the null foreign key
NoId == 0

CategoryDefaults == [name |-> <<>>, slug |-> <<>>, isActive |-> TRUE]

SubcategoryDefaults == [name |-> <<>>, slug |-> <<>>, categoryId |-> NoId, isActive |-> TRUE]

CategoriesCreate(dto) ==
    /\ LET slug == categoryGenerateSlug(dto.name)
       IN  IF \E c \in RowIds(categories) : categories[c].slug = slug
           THEN /\ last' = [op |-> "categories.create", status |-> "Conflict"]
                /\ UNCHANGED categories
           ELSE /\ categories' =
                      Append(categories, [Spread(CategoryDefaults, dto) EXCEPT !.slug = slug])
                /\ last' = [op |-> "categories.create", status |-> "ok"]
    /\ UNCHANGED <<now, subcategories, products, variants, addresses, cartVars,
                   orders, slugVars, shelfVars>>

CategoriesUpdate(id, dto) ==
    /\ LET slug == IF Has(dto, "name") THEN categoryGenerateSlug(dto.name) ELSE <<>>
       IN  IF id \notin RowIds(categories)
           THEN /\ last' = [op |-> "categories.update", status |-> "NotFound"]
                /\ UNCHANGED categories
           ELSE IF /\ Has(dto, "name")
                   /\ \E c \in RowIds(categories) \ {id} : categories[c].slug = slug
           THEN /\ last' = [op |-> "categories.update", status |-> "Conflict"]
                /\ UNCHANGED categories
           ELSE /\ categories' =
                      Put(categories, id,
                          LET row == Spread(categories[id], dto)
                          IN  IF slug # <<>> THEN [row EXCEPT !.slug = slug] ELSE row)
                /\ last' = [op |-> "categories.update", status |-> "ok"]
    /\ UNCHANGED <<now, subcategories, products, variants, addresses, cartVars,
                   orders, slugVars, shelfVars>>

CategoriesRemove(id) ==
    /\ IF id \notin RowIds(categories)
       THEN /\ last' = [op |-> "categories.remove", status |-> "NotFound"]
            /\ UNCHANGED categories
       ELSE IF \E p \in RowIds(products) :
                   products[p].categoryId = id /\ products[p].isActive
       THEN /\ last' = [op |-> "categories.remove", status |-> "BadRequest"]
            /\ UNCHANGED categories
       ELSE /\ categories' = Put(categories, id, [categories[id] EXCEPT !.isActive = FALSE])
            /\ last' = [op |-> "categories.remove", status |-> "ok"]
    /\ UNCHANGED <<now, subcategories, products, variants, addresses, cartVars,
                   orders, slugVars, shelfVars>>

CreateSubcategory(dto) ==
    /\ LET slug == categoryGenerateSlug(dto.name)
       IN  IF dto.categoryId \notin RowIds(categories)
           THEN /\ last' = [op |-> "categories.createSubcategory", status |-> "NotFound"]
                /\ UNCHANGED subcategories
           ELSE IF \E i \in RowIds(subcategories) :
                       /\ subcategories[i].slug = slug
                       /\ subcategories[i].categoryId = dto.categoryId
           THEN /\ last' = [op |-> "categories.createSubcategory", status |-> "Conflict"]
                /\ UNCHANGED subcategories
           ELSE /\ subcategories' =
                      Append(subcategories,
                             [Spread(SubcategoryDefaults, dto) EXCEPT !.slug = slug])
                /\ last' = [op |-> "categories.createSubcategory", status |-> "ok"]
    /\ UNCHANGED <<now, categories, products, variants, addresses, cartVars,
                   orders, slugVars, shelfVars>>

\* subcategory.findFirst({ where: { slug, categoryId, NOT: { id } } }): a
\* categoryId absent from the request is undefined, and an undefined
\* condition filters nothing
SubcategorySlugHolder(slug, dto, id) ==
    \E i \in RowIds(subcategories) \ {id} :
        /\ subcategories[i].slug = slug
        /\ Has(dto, "categoryId") => subcategories[i].categoryId = dto.categoryId

UpdateSubcategory(id, dto) ==
    /\ LET named == Has(dto, "name") /\ dto.name # <<>>
           slug == IF named THEN categoryGenerateSlug(dto.name) ELSE <<>>
           reply(status) == [op |-> "categories.updateSubcategory", status |-> status,
                             id |-> id, dto |-> dto]
       IN  IF id \notin RowIds(subcategories)
           THEN /\ last' = reply("NotFound")
                /\ UNCHANGED subcategories
           ELSE IF named /\ SubcategorySlugHolder(slug, dto, id)
           THEN /\ last' = reply("Conflict")
                /\ UNCHANGED subcategories
           ELSE /\ subcategories' =
                      Put(subcategories, id,
                          LET row == Spread(subcategories[id], dto)
                          IN  IF slug # <<>> THEN [row EXCEPT !.slug = slug] ELSE row)
                /\ last' = reply("ok")
    /\ UNCHANGED <<now, categories, products, variants, addresses, cartVars,
                   orders, slugVars, shelfVars>>

RemoveSubcategory(id) ==
    /\ LET reply(status) == [op |-> "categories.removeSubcategory", status |-> status,
                             id |-> id]
       IN  IF id \notin RowIds(subcategories)
           THEN /\ last' = reply("NotFound")
                /\ UNCHANGED subcategories
           ELSE IF \E p \in RowIds(products) :
                       products[p].subcategoryId = id /\ products[p].isActive
           THEN /\ last' = reply("BadRequest")
                /\ UNCHANGED subcategories
           ELSE /\ subcategories' =
                      Put(subcategories, id, [subcategories[id] EXCEPT !.isActive = FALSE])
                /\ last' = reply("ok")
    /\ UNCHANGED <<now, categories, products, variants, addresses, cartVars,
                   orders, slugVars, shelfVars>>

----------------------------------------------------------------------------
(* ProductsService: products *)

ProductDefaults ==
    [name |-> <<>>, slug |-> <<>>, categoryId |-> NoId, subcategoryId |-> NoId,
     isActive |-> TRUE]

\* Mutation: the lookup restricted to active products.
SlugHolderActiveOnly(slug, excluded) ==
    \E p \in RowIds(products) \ excluded : products[p].slug = slug /\ products[p].isActive

\* product.findUnique({ where: { slug } }) and
\* product.findFirst({ where: { slug, NOT: { id } } }) find a row
SlugHolder(slug, excluded) ==
    \E p \in RowIds(products) \ excluded : products[p].slug = slug

ProductsCreate(dto) ==
    /\ LET slug == generateSlug(dto.name)
           fail(status) == /\ last' = [op |-> "products.create", status |-> status,
                                       slug |-> slug]
                           /\ UNCHANGED products
       IN  IF SlugHolder(slug, {}) THEN fail("Conflict")
           ELSE IF dto.categoryId \notin RowIds(categories) THEN fail("NotFound")
           ELSE IF Has(dto, "subcategoryId") /\ dto.subcategoryId \notin RowIds(subcategories)
           THEN fail("NotFound")
           ELSE IF /\ Has(dto, "subcategoryId")
                   /\ subcategories[dto.subcategoryId].categoryId # dto.categoryId
           THEN fail("BadRequest")
           ELSE /\ products' =
                      Append(products, [Spread(ProductDefaults, dto) EXCEPT !.slug = slug])
                /\ last' = [op |-> "products.create", status |-> "ok", slug |-> slug]
    /\ UNCHANGED <<now, categories, subcategories, variants, addresses, cartVars,
                   orders, slugVars, shelfVars>>

\* the statements of update: the checks and the product.update
ProductsUpdateRows(id, dto) ==
    LET slug == IF Has(dto, "name") THEN generateSlug(dto.name) ELSE <<>>
        fail(status) == /\ last' = [op |-> "products.update", status |-> status,
                                    id |-> id, renamed |-> Has(dto, "name"),
                                    slug |-> slug]
                        /\ UNCHANGED products
    IN  IF id \notin RowIds(products) THEN fail("NotFound")
        ELSE IF Has(dto, "name") /\ SlugHolder(slug, {id}) THEN fail("Conflict")
        ELSE IF Has(dto, "categoryId") /\ dto.categoryId \notin RowIds(categories)
        THEN fail("NotFound")
        ELSE IF Has(dto, "subcategoryId") /\ dto.subcategoryId \notin RowIds(subcategories)
        THEN fail("NotFound")
        ELSE /\ products' =
                   Put(products, id,
                       LET row == Spread(products[id], dto)
                       IN  IF slug # <<>> THEN [row EXCEPT !.slug = slug] ELSE row)
             /\ last' = [op |-> "products.update", status |-> "ok", id |-> id,
                         renamed |-> Has(dto, "name"), slug |-> slug]

\* Mutation: a rename is pushed into the OrderItem rows of the product.
ProductsUpdateCascading(id, dto) ==
    /\ ProductsUpdateRows(id, dto)
    /\ orders' =
          [o \in RowIds(orders) |->
              [orders[o] EXCEPT !.items =
                  [k \in 1..Len(@) |->
                      IF /\ id \in RowIds(products)
                         /\ Has(dto, "name")
                         /\ variants[@[k].variantId].productId = id
                      THEN [@[k] EXCEPT !.productName = dto.name]
                      ELSE @[k]]]]
    /\ UNCHANGED <<now, categories, subcategories, variants, addresses, cartVars,
                   slugVars, shelfVars>>

ProductsUpdate(id, dto) ==
    /\ ProductsUpdateRows(id, dto)
    /\ UNCHANGED <<now, categories, subcategories, variants, addresses, cartVars,
                   orders, slugVars, shelfVars>>

ProductsRemove(id) ==
    /\ IF id \notin RowIds(products)
       THEN /\ last' = [op |-> "products.remove", status |-> "NotFound"]
            /\ UNCHANGED products
       ELSE /\ products' = Put(products, id, [products[id] EXCEPT !.isActive = FALSE])
            /\ last' = [op |-> "products.remove", status |-> "ok"]
    /\ UNCHANGED <<now, categories, subcategories, variants, addresses, cartVars,
                   orders, slugVars, shelfVars>>

----------------------------------------------------------------------------
(* ProductsService: variants *)

\* Mutation: the request's isActive wins over the computed flag.
variantIsActiveFromDto(dto, stored) ==
    IF Has(dto, "isActive") THEN dto.isActive
    ELSE IF Has(dto, "stock") THEN dto.stock > 0 ELSE stored.stock > 0

\* updateVariantDto.stock !== undefined ? updateVariantDto.stock > 0
\*                                       : variant.stock > 0
variantIsActive(dto, stored) ==
    IF Has(dto, "stock") THEN dto.stock > 0 ELSE stored.stock > 0

VariantDefaults ==
    [productId |-> NoId, sku |-> "", stock |-> 0, price |-> 0, isActive |-> TRUE,
     size |-> "", color |-> "", gender |-> ""]

CreateVariant(dto) ==
    /\ LET fail(status) == /\ last' = [op |-> "products.createVariant", status |-> status,
                                       id |-> NoId, dto |-> dto]
                           /\ UNCHANGED variants
       IN  IF dto.productId \notin RowIds(products) THEN fail("NotFound")
           ELSE IF \E v \in RowIds(variants) : variants[v].sku = dto.sku THEN fail("Conflict")
           ELSE /\ variants' =
                      Append(variants,
                             [Spread(VariantDefaults, dto) EXCEPT !.isActive = dto.stock > 0])
                /\ last' = [op |-> "products.createVariant", status |-> "ok",
                            id |-> Len(variants) + 1, dto |-> dto]
    /\ UNCHANGED <<now, categories, subcategories, products, addresses, cartVars,
                   orders, slugVars, shelfVars>>

UpdateVariant(id, dto) ==
    /\ LET fail(status) == /\ last' = [op |-> "products.updateVariant", status |-> status,
                                       id |-> id, dto |-> dto]
                           /\ UNCHANGED variants
       IN  IF id \notin RowIds(variants) THEN fail("NotFound")
           ELSE IF /\ Has(dto, "sku")
                   /\ dto.sku # variants[id].sku
                   /\ \E v \in RowIds(variants) : variants[v].sku = dto.sku
           THEN fail("Conflict")
           ELSE /\ variants' =
                      Put(variants, id,
                          [Spread(variants[id], dto) EXCEPT
                              !.isActive = variantIsActive(dto, variants[id])])
                /\ last' = [op |-> "products.updateVariant", status |-> "ok",
                            id |-> id, dto |-> dto]
    /\ UNCHANGED <<now, categories, subcategories, products, addresses, cartVars,
                   orders, slugVars, shelfVars>>

RemoveVariant(id) ==
    /\ IF id \notin RowIds(variants)
       THEN /\ last' = [op |-> "products.removeVariant", status |-> "NotFound", id |-> id]
            /\ UNCHANGED variants
       ELSE /\ variants' = Put(variants, id, [variants[id] EXCEPT !.isActive = FALSE])
            /\ last' = [op |-> "products.removeVariant", status |-> "ok", id |-> id]
    /\ UNCHANGED <<now, categories, subcategories, products, addresses, cartVars,
                   orders, slugVars, shelfVars>>

----------------------------------------------------------------------------
(* ProductsService: images *)

MaxImagesPerProduct == 5

ImageDefaults == [productId |-> NoId, order |-> 0, isActive |-> TRUE]

AddImage(dto) ==
    /\ LET reply(status) == [op |-> "products.addImage", status |-> status, dto |-> dto]
           shown == {i \in RowIds(images) :
                        images[i].productId = dto.productId /\ images[i].isActive}
       IN  IF dto.productId \notin RowIds(products)
           THEN last' = reply("NotFound") /\ UNCHANGED images
           ELSE IF Cardinality(shown) >= MaxImagesPerProduct
           THEN last' = reply("BadRequest") /\ UNCHANGED images
           ELSE IF \E i \in shown : images[i].order = dto.order
           THEN last' = reply("Conflict") /\ UNCHANGED images
           ELSE /\ images' = Append(images, Spread(ImageDefaults, dto))
                /\ last' = reply("ok")
    /\ UNCHANGED <<now, catalogVars, addresses, cartVars, orders, slugVars, favorites,
                   nextFavoriteId, inflight>>

RemoveImage(id) ==
    /\ LET reply(status) == [op |-> "products.removeImage", status |-> status, id |-> id]
       IN  IF id \notin RowIds(images)
           THEN last' = reply("NotFound") /\ UNCHANGED images
           ELSE /\ images' = Put(images, id, [images[id] EXCEPT !.isActive = FALSE])
                /\ last' = reply("ok")
    /\ UNCHANGED <<now, catalogVars, addresses, cartVars, orders, slugVars, favorites,
                   nextFavoriteId, inflight>>

----------------------------------------------------------------------------
(* FavoritesService *)

AddFavorite(userId, dto) ==
    /\ LET reply(status) == [op |-> "favorites.add", status |-> status, userId |-> userId,
                             id |-> IF status = "ok" THEN nextFavoriteId ELSE NoId]
           refuse(status) == /\ last' = reply(status)
                             /\ UNCHANGED <<favorites, nextFavoriteId>>
       IN  IF dto.productId \notin RowIds(products) THEN refuse("NotFound")
           ELSE IF ~products[dto.productId].isActive THEN refuse("Conflict")
           ELSE IF \E f \in favorites : f.userId = userId /\ f.productId = dto.productId
           THEN refuse("Conflict")
           ELSE /\ favorites' = favorites \cup {[id |-> nextFavoriteId, userId |-> userId,
                                                  productId |-> dto.productId]}
                /\ nextFavoriteId' = nextFavoriteId + 1
                /\ last' = reply("ok")
    /\ UNCHANGED <<now, catalogVars, addresses, cartVars, orders, slugVars, images, inflight>>

\* Mutation: the delete forgotten.
withoutFavoriteKept(favs, favoriteId) == favs

\* favorite.delete({ where: { id: favoriteId } })
withoutFavorite(favs, favoriteId) == {f \in favs : f.id # favoriteId}

RemoveFavorite(userId, favoriteId) ==
    /\ LET reply(status) == [op |-> "favorites.remove", status |-> status,
                             userId |-> userId, id |-> favoriteId]
       IN  IF ~\E f \in favorites : f.id = favoriteId /\ f.userId = userId
           THEN last' = reply("NotFound") /\ UNCHANGED favorites
           ELSE /\ favorites' = withoutFavorite(favorites, favoriteId)
                /\ last' = reply("ok")
    /\ UNCHANGED <<now, catalogVars, addresses, cartVars, orders, slugVars, images,
                   nextFavoriteId, inflight>>

\* favorite.findMany({ where: { userId } }), the favorites of inactive
\* products filtered out
GetFavorites(userId) ==
    /\ last' = [op |-> "favorites.get", status |-> "ok", userId |-> userId,
                items |-> {f \in favorites :
                             f.userId = userId /\ products[f.productId].isActive}]
    /\ UNCHANGED <<now, catalogVars, addresses, cartVars, orders, slugVars, shelfVars>>

\* favorite.deleteMany({ where: { userId } })
ClearFavorites(userId) ==
    /\ favorites' = {f \in favorites : f.userId # userId}
    /\ last' = [op |-> "favorites.clear", status |-> "ok", userId |-> userId,
                deleted |-> Cardinality({f \in favorites : f.userId = userId})]
    /\ UNCHANGED <<now, catalogVars, addresses, cartVars, orders, slugVars, images,
                   nextFavoriteId, inflight>>

----------------------------------------------------------------------------
(* AddressService *)

Aliases == {"home"}

\* CreateAddressDto: alias stands for the required text fields, isDefault
\* is optional
CreateAddressDtos ==
    {[alias |-> a] : a \in Aliases}
    \cup {[alias |-> a, isDefault |-> d] : a \in Aliases, d \in BOOLEAN}

\* UpdateAddressDto = PartialType(CreateAddressDto)
UpdateAddressDtos ==
    {[alias |-> a] : a \in Aliases}
    \cup {[isDefault |-> d] : d \in BOOLEAN}
    \cup {[alias |-> a, isDefault |-> d] : a \in Aliases, d \in BOOLEAN}

\* column defaults of the Address table
AddressDefaults == [userId |-> "", alias |-> "", isDefault |-> FALSE, isActive |-> TRUE]

\* address.findFirst({ where: { id, userId, isActive: true } })
FindActiveAddress(addressId, userId) ==
    /\ addressId \in RowIds(addresses)
    /\ addresses[addressId].userId = userId
    /\ addresses[addressId].isActive

\* Mutation: the sweep forgotten.
unsetDefaultsSkipped(addrs, userId, excluded) == addrs

\* address.updateMany({ where: { userId, isActive: true [, id: { not }] },
\*                      data: { isDefault: false } })
unsetDefaults(addrs, userId, excluded) ==
    [i \in RowIds(addrs) |->
        IF addrs[i].userId = userId /\ addrs[i].isActive /\ i \notin excluded
        THEN [addrs[i] EXCEPT !.isDefault = FALSE]
        ELSE addrs[i]]

\* Mutation: the list ordered by creation date alone.
listedBeforeByDate(addrs, i, j) == i > j

\* orderBy: [{ isDefault: 'desc' }, { createdAt: 'desc' }]; rows are
\* created one after the other, so a later id is a later createdAt
listedBefore(addrs, i, j) ==
    \/ addrs[i].isDefault /\ ~addrs[j].isDefault
    \/ addrs[i].isDefault = addrs[j].isDefault /\ i > j

RECURSIVE inListOrder(_, _)
inListOrder(addrs, ids) ==
    IF ids = {} THEN <<>>
    ELSE LET first == CHOOSE i \in ids : \A j \in ids \ {i} : listedBefore(addrs, i, j)
         IN  <<first>> \o inListOrder(addrs, ids \ {first})

\* address.findMany({ where: { userId, isActive: true }, orderBy })
findAllByUser(addrs, userId) ==
    LET ids == inListOrder(addrs, {i \in RowIds(addrs) :
                                      addrs[i].userId = userId /\ addrs[i].isActive})
    IN  [k \in 1..Len(ids) |-> [id |-> ids[k], isDefault |-> addrs[ids[k]].isDefault,
                                 alias |-> addrs[ids[k]].alias]]

AddressFindAllByUser(userId) ==
    /\ last' = [op |-> "address.findAll", status |-> "ok", userId |-> userId,
                items |-> findAllByUser(addresses, userId)]
    /\ UNCHANGED <<now, catalogVars, addresses, cartVars, orders, slugVars, shelfVars>>

AddressFindOne(addressId, userId) ==
    /\ last' = [op |-> "address.findOne",
                status |-> IF FindActiveAddress(addressId, userId) THEN "ok" ELSE "NotFound",
                id |-> addressId]
    /\ UNCHANGED <<now, catalogVars, addresses, cartVars, orders, slugVars, shelfVars>>

AddressCreate(userId, dto) ==
    /\ LET swept == IF Has(dto, "isDefault") /\ dto.isDefault
                     THEN unsetDefaults(addresses, userId, {})
                     ELSE addresses
           row == Spread([AddressDefaults EXCEPT !.userId = userId], dto)
       IN  /\ addresses' = Append(swept, row)
           /\ last' = [op |-> "address.create", status |-> "ok",
                       id |-> Len(addresses) + 1]
    /\ UNCHANGED <<now, catalogVars, cartVars, orders, slugVars, shelfVars>>

AddressUpdate(addressId, userId, dto) ==
    /\ IF ~FindActiveAddress(addressId, userId)
       THEN /\ last' = [op |-> "address.update", status |-> "NotFound", id |-> addressId]
            /\ UNCHANGED addresses
       ELSE LET swept == IF Has(dto, "isDefault") /\ dto.isDefault
                         THEN unsetDefaults(addresses, userId, {addressId})
                         ELSE addresses
            IN  /\ addresses' = Put(swept, addressId, Spread(swept[addressId], dto))
                /\ last' = [op |-> "address.update", status |-> "ok", id |-> addressId]
    /\ UNCHANGED <<now, catalogVars, cartVars, orders, slugVars, shelfVars>>

AddressSetAsDefault(addressId, userId) ==
    /\ IF ~FindActiveAddress(addressId, userId)
       THEN /\ last' = [op |-> "address.setAsDefault", status |-> "NotFound", id |-> addressId]
            /\ UNCHANGED addresses
       ELSE LET swept == unsetDefaults(addresses, userId, {})
            IN  /\ addresses' = Put(swept, addressId,
                                    [swept[addressId] EXCEPT !.isDefault = TRUE])
                /\ last' = [op |-> "address.setAsDefault", status |-> "ok", id |-> addressId]
    /\ UNCHANGED <<now, catalogVars, cartVars, orders, slugVars, shelfVars>>

AddressRemove(addressId, userId) ==
    /\ IF ~FindActiveAddress(addressId, userId)
       THEN /\ last' = [op |-> "address.remove", status |-> "NotFound", id |-> addressId]
            /\ UNCHANGED addresses
       ELSE /\ addresses' = Put(addresses, addressId,
                                [addresses[addressId] EXCEPT !.isActive = FALSE])
            /\ last' = [op |-> "address.remove", status |-> "ok", id |-> addressId]
    /\ UNCHANGED <<now, catalogVars, cartVars, orders, slugVars, shelfVars>>

----------------------------------------------------------------------------
(* CartService.  A cart is identified by its owner (Cart.userId is unique); *)
(* a CartItem is [id, cartId, variantId, quantity, expiresAt].             *)

\* expiresAt.setDate(expiresAt.getDate() + 5)
ExpiryDays == 5

ItemsOfCart(items, cartId) == {i \in items : i.cartId = cartId}

\* Mutation: the expired rows are left in the table.
purgeExpiredSkipped(items, cartId, t) == items

\* cartItem.deleteMany({ where: { cartId, expiresAt: { lt: now } } })
purgeExpired(items, cartId, t) ==
    {i \in items : ~(i.cartId = cartId /\ i.expiresAt < t)}

\* getOrCreateCart: the CartItem table it leaves
itemsAfterGetOrCreate(items, userId) ==
    IF userId \in carts THEN purgeExpired(items, userId, now) ELSE items

\* getOrCreateCart: the Cart table it leaves
cartsAfterGetOrCreate(userId) == carts \cup {userId}

\* subtotal += Number(item.variant.price) * item.quantity
RECURSIVE cartSubtotal(_)
cartSubtotal(items) ==
    IF items = {} THEN 0
    ELSE LET i == CHOOSE x \in items : TRUE
         IN  variants[i.variantId].price * i.quantity + cartSubtotal(items \ {i})

\* totalItems += item.quantity
RECURSIVE cartTotalItems(_)
cartTotalItems(items) ==
    IF items = {} THEN 0
    ELSE LET i == CHOOSE x \in items : TRUE
         IN  i.quantity + cartTotalItems(items \ {i})

\* the response of getCartWithTotals, computed on the table a call leaves
CartResponse(op, items, userId, request) ==
    LET mine == ItemsOfCart(items, userId)
    IN  [op |-> op, status |-> "ok", userId |-> userId, request |-> request,
         at |-> now, items |-> mine,
         subtotal |-> cartSubtotal(mine), totalItems |-> cartTotalItems(mine)]

CartFailure(op, status, userId, request) ==
    [op |-> op, status |-> status, userId |-> userId, request |-> request]

GetCartWithTotals(userId) ==
    /\ carts' = cartsAfterGetOrCreate(userId)
    /\ cartItems' = itemsAfterGetOrCreate(cartItems, userId)
    /\ last' = CartResponse("cart.get", cartItems', userId, <<>>)
    /\ UNCHANGED <<now, catalogVars, addresses, nextCartItemId, orders, slugVars, shelfVars>>

\* Mutation: the product of the variant is not looked at.
FindAvailableVariantAnyProduct(variantId) ==
    /\ variantId \in RowIds(variants)
    /\ variants[variantId].isActive

\* productVariant.findFirst({ where: { id, isActive: true,
\*                                      product: { isActive: true } } })
FindAvailableVariant(variantId) ==
    /\ variantId \in RowIds(variants)
    /\ variants[variantId].isActive
    /\ products[variants[variantId].productId].isActive

\* Mutation: the new expiry is written to every line of the item's cart.
updatedItemCartRenewed(items, item, quantity, expiresAt) ==
    {IF i = item THEN [i EXCEPT !.quantity = quantity, !.expiresAt = expiresAt]
     ELSE IF i.cartId = item.cartId THEN [i EXCEPT !.expiresAt = expiresAt]
     ELSE i : i \in items}

\* cartItem.update({ where: { id }, data: { quantity, expiresAt } })
updatedItem(items, item, quantity, expiresAt) ==
    (items \ {item}) \cup {[item EXCEPT !.quantity = quantity, !.expiresAt = expiresAt]}

\* Mutation: the existing line is overwritten with the added quantity.
mergedQuantityReplaced(existing, added) == added

\* existingItem.quantity + dto.quantity
mergedQuantity(existing, added) == existing + added

AddToCart(userId, dto) ==
    LET v == dto.variantId
        kept == itemsAfterGetOrCreate(cartItems, userId)
        existing == {i \in ItemsOfCart(kept, userId) : i.variantId = v}
        expiresAt == now + ExpiryDays
    IN  /\ IF ~FindAvailableVariant(v)
           THEN /\ last' = CartFailure("cart.add", "NotFound", userId, dto)
                /\ UNCHANGED cartVars
           ELSE IF variants[v].stock < dto.quantity
           THEN /\ last' = CartFailure("cart.add", "BadRequest", userId, dto)
                /\ UNCHANGED cartVars
           ELSE IF existing # {}
           THEN LET item == CHOOSE i \in existing : TRUE
                    newQuantity == mergedQuantity(item.quantity, dto.quantity)
                IN  IF newQuantity > variants[v].stock
                    THEN /\ carts' = cartsAfterGetOrCreate(userId)
                         /\ cartItems' = kept
                         /\ last' = CartFailure("cart.add", "BadRequest", userId, dto)
                         /\ UNCHANGED nextCartItemId
                    ELSE /\ carts' = cartsAfterGetOrCreate(userId)
                         /\ cartItems' =
                               purgeExpired(
                                   updatedItem(kept, item, newQuantity, expiresAt),
                                   userId, now)
                         /\ last' = CartResponse("cart.add", cartItems', userId, dto)
                         /\ UNCHANGED nextCartItemId
           ELSE /\ carts' = cartsAfterGetOrCreate(userId)
                /\ cartItems' =
                      purgeExpired(
                          kept \cup {[id |-> nextCartItemId, cartId |-> userId,
                                      variantId |-> v, quantity |-> dto.quantity,
                                      expiresAt |-> expiresAt]},
                          userId, now)
                /\ nextCartItemId' = nextCartItemId + 1
                /\ last' = CartResponse("cart.add", cartItems', userId, dto)
        /\ UNCHANGED <<now, catalogVars, addresses, orders, slugVars, shelfVars>>

\* Mutation: the item looked up by its id alone.
FindOwnItemAnyCart(itemId, userId) == {i \in cartItems : i.id = itemId}

\* cartItem.findFirst({ where: { id: itemId, cart: { userId } } })
FindOwnItem(itemId, userId) == {i \in cartItems : i.id = itemId /\ i.cartId = userId}

UpdateCartItem(userId, itemId, dto) ==
    LET found == FindOwnItem(itemId, userId)
    IN  /\ IF found = {}
           THEN /\ last' = CartFailure("cart.update", "NotFound", userId,
                                           [id |-> itemId, quantity |-> dto.quantity])
                /\ UNCHANGED cartVars
           ELSE LET item == CHOOSE i \in found : TRUE
                IN  IF item.expiresAt < now
                    THEN /\ last' = CartFailure("cart.update", "BadRequest", userId,
                                           [id |-> itemId, quantity |-> dto.quantity])
                         /\ UNCHANGED cartVars
                    ELSE IF dto.quantity > variants[item.variantId].stock
                    THEN /\ last' = CartFailure("cart.update", "BadRequest", userId,
                                           [id |-> itemId, quantity |-> dto.quantity])
                         /\ UNCHANGED cartVars
                    ELSE /\ cartItems' =
                               itemsAfterGetOrCreate(
                                   updatedItem(cartItems, item, dto.quantity,
                                               now + ExpiryDays),
                                   userId)
                         /\ carts' = cartsAfterGetOrCreate(userId)
                         /\ last' = CartResponse("cart.update", cartItems', userId, [id |-> itemId, quantity |-> dto.quantity])
                         /\ UNCHANGED nextCartItemId
        /\ UNCHANGED <<now, catalogVars, addresses, orders, slugVars, shelfVars>>

RemoveCartItem(userId, itemId) ==
    LET found == FindOwnItem(itemId, userId)
    IN  /\ IF found = {}
           THEN /\ last' = CartFailure("cart.remove", "NotFound", userId, [id |-> itemId])
                /\ UNCHANGED cartVars
           ELSE /\ cartItems' = itemsAfterGetOrCreate(cartItems \ found, userId)
                /\ carts' = cartsAfterGetOrCreate(userId)
                /\ last' = CartResponse("cart.remove", cartItems', userId, [id |-> itemId])
                /\ UNCHANGED nextCartItemId
        /\ UNCHANGED <<now, catalogVars, addresses, orders, slugVars, shelfVars>>

\* getOrCreateCart, cartItem.deleteMany({ where: { cartId } }), and the
\* cart read again
ClearCart(userId) ==
    /\ carts' = cartsAfterGetOrCreate(userId)
    /\ cartItems' = {i \in cartItems : i.cartId # userId}
    /\ last' = CartResponse("cart.clear", cartItems', userId, <<>>)
    /\ UNCHANGED <<now, catalogVars, addresses, nextCartItemId, orders, slugVars, shelfVars>>

----------------------------------------------------------------------------
(* OrdersService.  An Order row carries its OrderItem rows.                *)

\* cart.items as loaded by cart.findUnique({ include: { items } }), in
\* creation order; empty when the user has no cart
RECURSIVE ItemsInIdOrder(_)
ItemsInIdOrder(items) ==
    IF items = {} THEN <<>>
    ELSE LET first == CHOOSE i \in items : \A j \in items : i.id <= j.id
         IN  <<first>> \o ItemsInIdOrder(items \ {first})

LoadCart(userId) ==
    IF userId \in carts THEN ItemsInIdOrder(ItemsOfCart(cartItems, userId)) ELSE <<>>

\* Mutation: the stock validation dropped.
lineRejectedNoStockCheck(line) ==
    \/ ~variants[line.variantId].isActive
    \/ ~products[variants[line.variantId].productId].isActive

\* the two validations of the loop over cart.items
lineRejected(line) ==
    \/ ~variants[line.variantId].isActive
    \/ ~products[variants[line.variantId].productId].isActive
    \/ variants[line.variantId].stock < line.quantity

\* Mutation: the loop over the cart lines validates nothing.
orderPreconditionLinesUnchecked(userId, dto, lines) ==
    IF userId \notin carts \/ lines = <<>> THEN "BadRequest"
    ELSE IF ~FindActiveAddress(dto.addressId, userId) THEN "NotFound"
    ELSE "ok"

\* the first failing precondition of createOrder, "ok" when none fails
orderPrecondition(userId, dto, lines) ==
    IF userId \notin carts \/ lines = <<>> THEN "BadRequest"
    ELSE IF ~FindActiveAddress(dto.addressId, userId) THEN "NotFound"
    ELSE IF \E k \in 1..Len(lines) : lineRejected(lines[k]) THEN "BadRequest"
    ELSE "ok"

\* Mutation: the unit price summed, the quantity forgotten.
RECURSIVE orderSubtotalUnitPrices(_)
orderSubtotalUnitPrices(lines) ==
    IF lines = <<>> THEN 0
    ELSE variants[Head(lines).variantId].price + orderSubtotalUnitPrices(Tail(lines))

\* subtotal += Number(item.variant.price) * item.quantity
RECURSIVE orderSubtotal(_)
orderSubtotal(lines) ==
    IF lines = <<>> THEN 0
    ELSE variants[Head(lines).variantId].price * Head(lines).quantity
         + orderSubtotal(Tail(lines))

\* one OrderItem: the snapshot of a cart line
orderItemOf(line) ==
    LET v == variants[line.variantId]
    IN  [variantId |-> line.variantId,
         productName |-> products[v.productId].name,
         variantSize |-> v.size,
         variantColor |-> v.color,
         variantGender |-> v.gender,
         price |-> v.price,
         quantity |-> line.quantity,
         subtotal |-> v.price * line.quantity]

\* a timestamp column that is NULL
NoTime == -1

newOrder(userId, dto, lines) ==
    [userId |-> userId,
     addressId |-> dto.addressId,
     subtotal |-> orderSubtotal(lines),
     total |-> orderSubtotal(lines),
     status |-> "PENDING_PAYMENT",
     paymentMethod |-> dto.paymentMethod,
     adminNotes |-> "",
     paidAt |-> NoTime,
     shippedAt |-> NoTime,
     deliveredAt |-> NoTime,
     cancelledAt |-> NoTime,
     items |-> [k \in 1..Len(lines) |-> orderItemOf(lines[k])]]

\* Mutation: every line takes one unit off the stock.
decrementOneUnit(vs, line) ==
    LET lowered == [vs EXCEPT ![line.variantId].stock = @ - 1]
    IN  IF lowered[line.variantId].stock = 0
        THEN [lowered EXCEPT ![line.variantId].isActive = FALSE]
        ELSE lowered

\* Mutation: the variant is not deactivated when it runs out.
decrementWithoutDeactivation(vs, line) ==
    [vs EXCEPT ![line.variantId].stock = @ - line.quantity]

\* one round of the stock loop: decrement, reload, deactivate at 0
decrementLine(vs, line) ==
    LET lowered == [vs EXCEPT ![line.variantId].stock = @ - line.quantity]
    IN  IF lowered[line.variantId].stock = 0
        THEN [lowered EXCEPT ![line.variantId].isActive = FALSE]
        ELSE lowered

RECURSIVE decrementStock(_, _)
decrementStock(vs, lines) ==
    IF lines = <<>> THEN vs
    ELSE decrementStock(decrementLine(vs, Head(lines)), Tail(lines))

CreateOrder(userId, dto) ==
    LET lines == LoadCart(userId)
        verdict == orderPrecondition(userId, dto, lines)
    IN  /\ IF verdict # "ok"
           THEN /\ last' = [op |-> "orders.create", status |-> verdict, userId |-> userId,
                            dto |-> dto, orderId |-> NoId]
                /\ UNCHANGED <<orders, variants, cartItems>>
           ELSE /\ orders' = Append(orders, newOrder(userId, dto, lines))
                /\ variants' = decrementStock(variants, lines)
                /\ cartItems' = {i \in cartItems : i.cartId # userId}
                /\ last' = [op |-> "orders.create", status |-> "ok", userId |-> userId,
                            dto |-> dto, orderId |-> Len(orders) + 1]
        /\ UNCHANGED <<now, categories, subcategories, products, addresses, carts,
                       nextCartItemId, slugVars, shelfVars>>

OrderStatuses == {"PENDING_PAYMENT", "PAGO_CONFIRMADO", "EN_CAMINO", "ENTREGADO", "CANCELADO"}

Roles == {"USER", "ADMIN", "SUPER_ADMIN"}

\* Mutation: the case ENTREGADO falls through into the case CANCELADO.
stampedFieldsFallThrough(status) ==
    CASE status = "PAGO_CONFIRMADO" -> {"paidAt"}
      [] status = "EN_CAMINO" -> {"shippedAt"}
      [] status = "ENTREGADO" -> {"deliveredAt", "cancelledAt"}
      [] status = "CANCELADO" -> {"cancelledAt"}
      [] OTHER -> {}

\* switch (dto.status): the timestamps that updateData receives
stampedFields(status) ==
    CASE status = "PAGO_CONFIRMADO" -> {"paidAt"}
      [] status = "EN_CAMINO" -> {"shippedAt"}
      [] status = "ENTREGADO" -> {"deliveredAt"}
      [] status = "CANCELADO" -> {"cancelledAt"}
      [] OTHER -> {}

\* Mutation: an order that was delivered or cancelled keeps its status.
updatedOrderFinalKept(order, dto, t) ==
    IF order.status \in {"ENTREGADO", "CANCELADO"} THEN order
    ELSE [f \in DOMAIN order |->
            IF f = "status" THEN dto.status
            ELSE IF f = "adminNotes" /\ Has(dto, "adminNotes") THEN dto.adminNotes
            ELSE IF f \in stampedFields(dto.status) THEN t
            ELSE order[f]]

\* order.update({ where: { id }, data: updateData }): status, adminNotes
\* when the request carries them, and the timestamp of the new status
updatedOrder(order, dto, t) ==
    [f \in DOMAIN order |->
        IF f = "status" THEN dto.status
        ELSE IF f = "adminNotes" /\ Has(dto, "adminNotes") THEN dto.adminNotes
        ELSE IF f \in stampedFields(dto.status) THEN t
        ELSE order[f]]

\* Mutation: a cancellation returns the order's lines to the stock and
\* reactivates their variants.
UpdateOrderStatusRestocking(orderId, dto, userRole) ==
    /\ LET reply(status) == [op |-> "orders.updateStatus", status |-> status,
                             orderId |-> orderId, dto |-> dto, role |-> userRole]
           returned(v) ==
               LET ks == {k \in 1..Len(orders[orderId].items) :
                            orders[orderId].items[k].variantId = v}
               IN  IF ks = {} THEN 0
                   ELSE orders[orderId].items[CHOOSE k \in ks : TRUE].quantity
       IN  IF userRole = "USER"
           THEN /\ last' = reply("Forbidden")
                /\ UNCHANGED <<orders, variants>>
           ELSE IF orderId \notin RowIds(orders)
           THEN /\ last' = reply("NotFound")
                /\ UNCHANGED <<orders, variants>>
           ELSE /\ orders' = Put(orders, orderId, updatedOrder(orders[orderId], dto, now))
                /\ variants' =
                      IF dto.status # "CANCELADO" THEN variants
                      ELSE [v \in RowIds(variants) |->
                               IF returned(v) = 0 THEN variants[v]
                               ELSE [variants[v] EXCEPT !.stock = @ + returned(v),
                                                        !.isActive = TRUE]]
                /\ last' = reply("ok")
    /\ UNCHANGED <<now, categories, subcategories, products, addresses, cartVars,
                   slugVars, shelfVars>>

UpdateOrderStatus(orderId, dto, userRole) ==
    /\ LET reply(status) == [op |-> "orders.updateStatus", status |-> status,
                             orderId |-> orderId, dto |-> dto, role |-> userRole]
       IN  IF userRole = "USER"
           THEN /\ last' = reply("Forbidden")
                /\ UNCHANGED orders
           ELSE IF orderId \notin RowIds(orders)
           THEN /\ last' = reply("NotFound")
                /\ UNCHANGED orders
           ELSE /\ orders' = Put(orders, orderId, updatedOrder(orders[orderId], dto, now))
                /\ last' = reply("ok")
    /\ UNCHANGED <<now, catalogVars, addresses, cartVars, slugVars, shelfVars>>

\* Mutation: only the owner may read an order.
mayViewOwnerOnly(order, userId, userRole) == order.userId = userId

\* if (order.userId !== userId && userRole === Role.USER) throw Forbidden
mayView(order, userId, userRole) == ~(order.userId # userId /\ userRole = "USER")

GetOrderById(orderId, userId, userRole) ==
    /\ LET reply(status, order) == [op |-> "orders.get", status |-> status,
                                    orderId |-> orderId, userId |-> userId,
                                    role |-> userRole, order |-> order]
       IN  IF orderId \notin RowIds(orders)
           THEN last' = reply("NotFound", <<>>)
           ELSE IF ~mayView(orders[orderId], userId, userRole)
           THEN last' = reply("Forbidden", <<>>)
           ELSE last' = reply("ok", orders[orderId])
    /\ UNCHANGED <<now, catalogVars, addresses, cartVars, orders, slugVars, shelfVars>>

----------------------------------------------------------------------------
(* OrdersService.createOrder, one database statement at a time.  What a  *)
(* call has loaded stays in its own memory: inflight[caller], a request   *)
(* of inflight[caller].userId.                                            *)

Calling(caller, op) == caller \in DOMAIN inflight /\ inflight[caller].op = op

\* the caller's request enters, or moves on, with the local state call
Proceed(caller, call) ==
    [c \in DOMAIN inflight \cup {caller} |-> IF c = caller THEN call ELSE inflight[c]]

\* the caller's request has been answered
Answered(caller) == [c \in DOMAIN inflight \ {caller} |-> inflight[c]]

\* cart.findUnique({ include: { items: { include: { variant: { include:
\* { product } } } } } }): every line with the variant and product rows
\* as they are at this moment
LoadCartWithVariants(userId) ==
    LET lines == LoadCart(userId)
    IN  [k \in 1..Len(lines) |->
            [line |-> lines[k],
             variant |-> variants[lines[k].variantId],
             product |-> products[variants[lines[k].variantId].productId]]]

\* the two validations of the loop, on the rows the call has loaded
loadedLineRejected(l) ==
    \/ ~l.variant.isActive
    \/ ~l.product.isActive
    \/ l.variant.stock < l.line.quantity

RECURSIVE loadedSubtotal(_)
loadedSubtotal(loaded) ==
    IF loaded = <<>> THEN 0
    ELSE Head(loaded).variant.price * Head(loaded).line.quantity
         + loadedSubtotal(Tail(loaded))

loadedOrderItem(l) ==
    [variantId |-> l.line.variantId,
     productName |-> l.product.name,
     variantSize |-> l.variant.size,
     variantColor |-> l.variant.color,
     variantGender |-> l.variant.gender,
     price |-> l.variant.price,
     quantity |-> l.line.quantity,
     subtotal |-> l.variant.price * l.line.quantity]

loadedOrder(userId, dto, loaded) ==
    [newOrder(userId, dto, <<>>) EXCEPT
        !.subtotal = loadedSubtotal(loaded),
        !.total = loadedSubtotal(loaded),
        !.items = [k \in 1..Len(loaded) |-> loadedOrderItem(loaded[k])]]

OrderReply(status, userId, dto, orderId) ==
    [op |-> "orders.create", status |-> status, userId |-> userId, dto |-> dto,
     orderId |-> orderId]

\* statement 1: load the cart; an absent or empty cart is refused
OrderLoadCart(caller, userId, dto) ==
    /\ caller \notin DOMAIN inflight
    /\ LET loaded == LoadCartWithVariants(userId)
       IN  IF userId \notin carts \/ loaded = <<>>
           THEN /\ last' = OrderReply("BadRequest", userId, dto, NoId)
                /\ UNCHANGED inflight
           ELSE /\ inflight' = Proceed(caller, [op |-> "orders.create", pc |-> "address",
                                                userId |-> userId, dto |-> dto,
                                                lines |-> loaded, k |-> 1,
                                                orderId |-> NoId])
                /\ UNCHANGED last
    /\ UNCHANGED <<now, catalogVars, addresses, cartVars, orders, slugVars, images,
                   favorites, nextFavoriteId>>

\* statement 2: find the address, then validate the loaded lines
OrderLoadAddress(caller) ==
    /\ Calling(caller, "orders.create") /\ inflight[caller].pc = "address"
    /\ LET call == inflight[caller]
           refuse(status) == /\ last' = OrderReply(status, call.userId, call.dto, NoId)
                             /\ inflight' = Answered(caller)
       IN  IF ~FindActiveAddress(call.dto.addressId, call.userId) THEN refuse("NotFound")
           ELSE IF \E k \in 1..Len(call.lines) : loadedLineRejected(call.lines[k])
           THEN refuse("BadRequest")
           ELSE /\ inflight' = Proceed(caller, [call EXCEPT !.pc = "insert"])
                /\ UNCHANGED last
    /\ UNCHANGED <<now, catalogVars, addresses, cartVars, orders, slugVars, images,
                   favorites, nextFavoriteId>>

\* statement 3: order.create with its items
OrderInsert(caller) ==
    /\ Calling(caller, "orders.create") /\ inflight[caller].pc = "insert"
    /\ LET call == inflight[caller]
       IN  /\ orders' = Append(orders, loadedOrder(call.userId, call.dto, call.lines))
           /\ inflight' = Proceed(caller, [call EXCEPT !.pc = "decrement",
                                                       !.orderId = Len(orders) + 1])
    /\ UNCHANGED <<now, last, catalogVars, addresses, cartVars, slugVars, images,
                   favorites, nextFavoriteId>>

\* Mutation: the decrement guarded by the stock it finds.
decrementedIfInStock(vs, variantId, quantity) ==
    IF vs[variantId].stock >= quantity
    THEN [vs EXCEPT ![variantId].stock = @ - quantity]
    ELSE vs

\* productVariant.update({ data: { stock: { decrement: quantity } } })
decremented(vs, variantId, quantity) == [vs EXCEPT ![variantId].stock = @ - quantity]

\* the call moves to its next line, or to emptying the cart
NextLine(call) ==
    IF call.k < Len(call.lines)
    THEN [call EXCEPT !.pc = "decrement", !.k = @ + 1]
    ELSE [call EXCEPT !.pc = "clear"]

\* statement 4, per line: the decrement
OrderDecrement(caller) ==
    /\ Calling(caller, "orders.create") /\ inflight[caller].pc = "decrement"
    /\ LET call == inflight[caller]
           line == call.lines[call.k].line
       IN  /\ variants' = decremented(variants, line.variantId, line.quantity)
           /\ inflight' = Proceed(caller, [call EXCEPT !.pc = "reload"])
    /\ UNCHANGED <<now, last, categories, subcategories, products, addresses, cartVars,
                   orders, slugVars, images, favorites, nextFavoriteId>>

\* statement 5, per line: productVariant.findUnique, and the test on what
\* it returns
OrderReload(caller) ==
    /\ Calling(caller, "orders.create") /\ inflight[caller].pc = "reload"
    /\ LET call == inflight[caller]
           line == call.lines[call.k].line
       IN  inflight' = Proceed(caller, IF variants[line.variantId].stock = 0
                                       THEN [call EXCEPT !.pc = "deactivate"]
                                       ELSE NextLine(call))
    /\ UNCHANGED <<now, last, catalogVars, addresses, cartVars, orders, slugVars, images,
                   favorites, nextFavoriteId>>

\* statement 6, per line whose reload showed stock 0: isActive = false
OrderDeactivate(caller) ==
    /\ Calling(caller, "orders.create") /\ inflight[caller].pc = "deactivate"
    /\ LET call == inflight[caller]
           line == call.lines[call.k].line
       IN  /\ variants' = [variants EXCEPT ![line.variantId].isActive = FALSE]
           /\ inflight' = Proceed(caller, NextLine(call))
    /\ UNCHANGED <<now, last, categories, subcategories, products, addresses, cartVars,
                   orders, slugVars, images, favorites, nextFavoriteId>>

\* statement 7: cartItem.deleteMany({ where: { cartId } }), and the answer
OrderClearCart(caller) ==
    /\ Calling(caller, "orders.create") /\ inflight[caller].pc = "clear"
    /\ LET call == inflight[caller]
       IN  /\ cartItems' = {i \in cartItems : i.cartId # call.userId}
           /\ inflight' = Answered(caller)
           /\ last' = OrderReply("ok", call.userId, call.dto, call.orderId)
    /\ UNCHANGED <<now, catalogVars, addresses, carts, nextCartItemId, orders, slugVars,
                   images, favorites, nextFavoriteId>>

\* Mutation: the statements of a call run in one transaction, so a failure
\* takes the inserted order back.
OrderFailRolledBack(caller) ==
    /\ Calling(caller, "orders.create")
    /\ inflight[caller].pc \in {"decrement", "reload", "deactivate", "clear"}
    /\ LET call == inflight[caller]
       IN  /\ orders' = [o \in 1..(call.orderId - 1) |-> orders[o]]
           /\ inflight' = Answered(caller)
           /\ last' = OrderReply("failed", call.userId, call.dto, call.orderId)
    /\ UNCHANGED <<now, catalogVars, addresses, cartVars, slugVars, images, favorites,
                   nextFavoriteId>>

\* the call stops after order.create and before deleteMany has run (a
\* statement throws, or the process dies): the statements are not wrapped
\* in a transaction and nothing catches the error, so what has been
\* written stays
OrderFail(caller) ==
    /\ Calling(caller, "orders.create")
    /\ inflight[caller].pc \in {"decrement", "reload", "deactivate", "clear"}
    /\ LET call == inflight[caller]
       IN  /\ inflight' = Answered(caller)
           /\ last' = OrderReply("failed", call.userId, call.dto, call.orderId)
    /\ UNCHANGED <<now, catalogVars, addresses, cartVars, orders, slugVars, images,
                   favorites, nextFavoriteId>>

----------------------------------------------------------------------------
(* AddressService, the writes of a default address one database statement *)
(* at a time: inflight[caller] is a request of inflight[caller].userId.    *)

\* the request bodies that ask for a default address
DefaultDto == [isDefault |-> TRUE]
NewDefaultDto == [alias |-> "home", isDefault |-> TRUE]

\* Mutation: isDefault set only when the user has no active default.
markedDefaultUnlessTaken(addrs, id) ==
    IF \E a \in RowIds(addrs) :
          /\ a # id /\ addrs[a].userId = addrs[id].userId
          /\ addrs[a].isActive /\ addrs[a].isDefault
    THEN addrs
    ELSE [addrs EXCEPT ![id].isDefault = TRUE]

\* address.update({ where: { id }, data: { isDefault: true } })
markedDefault(addrs, id) == [addrs EXCEPT ![id].isDefault = TRUE]

\* setAsDefault and update, statement 1: find the caller's active address
DefaultFind(caller, op, addressId, userId) ==
    /\ caller \notin DOMAIN inflight
    /\ IF ~FindActiveAddress(addressId, userId)
       THEN /\ last' = [op |-> op, status |-> "NotFound", id |-> addressId]
            /\ UNCHANGED inflight
       ELSE /\ inflight' = Proceed(caller, [op |-> op, pc |-> "sweep", id |-> addressId,
                                            userId |-> userId])
            /\ UNCHANGED last
    /\ UNCHANGED <<now, catalogVars, addresses, cartVars, orders, slugVars, images,
                   favorites, nextFavoriteId>>

\* setAsDefault and update, statement 2: the sweep (update spares its own
\* address)
DefaultSweep(caller) ==
    /\ caller \in DOMAIN inflight /\ inflight[caller].pc = "sweep"
    /\ LET call == inflight[caller]
           spared == IF call.op = "address.update" THEN {call.id} ELSE {}
       IN  /\ addresses' = unsetDefaults(addresses, call.userId, spared)
           /\ inflight' = Proceed(caller, [call EXCEPT !.pc = "write"])
    /\ UNCHANGED <<now, last, catalogVars, cartVars, orders, slugVars, images, favorites,
                   nextFavoriteId>>

\* create with isDefault, statement 1: the sweep
DefaultCreateSweep(caller, userId) ==
    /\ caller \notin DOMAIN inflight
    /\ addresses' = unsetDefaults(addresses, userId, {})
    /\ inflight' = Proceed(caller, [op |-> "address.create", pc |-> "write", id |-> NoId,
                                    userId |-> userId])
    /\ UNCHANGED <<now, last, catalogVars, cartVars, orders, slugVars, images, favorites,
                   nextFavoriteId>>

\* the last statement: the write of the address itself, and the answer
DefaultWrite(caller) ==
    /\ caller \in DOMAIN inflight /\ inflight[caller].pc = "write"
    /\ LET call == inflight[caller]
       IN  CASE call.op = "address.setAsDefault" ->
                  /\ addresses' = markedDefault(addresses, call.id)
                  /\ last' = [op |-> call.op, status |-> "ok", id |-> call.id]
             [] call.op = "address.update" ->
                  /\ addresses' = Put(addresses, call.id,
                                       Spread(addresses[call.id], DefaultDto))
                  /\ last' = [op |-> call.op, status |-> "ok", id |-> call.id]
             [] call.op = "address.create" ->
                  /\ addresses' =
                        Append(addresses,
                               Spread([AddressDefaults EXCEPT !.userId = call.userId],
                                      NewDefaultDto))
                  /\ last' = [op |-> call.op, status |-> "ok", id |-> Len(addresses) + 1]
    /\ inflight' = Answered(caller)
    /\ UNCHANGED <<now, catalogVars, cartVars, orders, slugVars, images, favorites,
                   nextFavoriteId>>

----------------------------------------------------------------------------
(* The clock *)

\* the days at which requests arrive
RequestDays == {0, ExpiryDays, ExpiryDays + 1}

Tick ==
    /\ \E t \in RequestDays : t > now /\ now' = t
    /\ last' = [op |-> "tick", status |-> "ok"]
    /\ UNCHANGED <<catalogVars, addresses, cartVars, orders, slugVars, shelfVars>>

----------------------------------------------------------------------------
(* Initial states *)

\* no image and no favorite yet, no request under way
EmptyShelf ==
    /\ images = <<>>
    /\ favorites = {}
    /\ nextFavoriteId = 1
    /\ inflight = <<>>

EmptyStore ==
    /\ categories = <<>>
    /\ subcategories = <<>>
    /\ products = <<>>
    /\ variants = <<>>
    /\ addresses = <<>>
    /\ carts = {}
    /\ cartItems = {}
    /\ nextCartItemId = 1
    /\ orders = <<>>

Started == [op |-> "start", status |-> "ok"]

----------------------------------------------------------------------------
(* generateSlug on its own: every input text up to MaxNameLen characters *)

InitSlug ==
    /\ EmptyStore
    /\ now = 0
    /\ last = Started
    /\ slugIn \in SlugInputs
    /\ slugOut = NoSlug
    /\ EmptyShelf

NextSlug == SlugOfProduct \/ SlugOfCategory

SpecSlug == InitSlug /\ [][NextSlug]_vars

----------------------------------------------------------------------------
(* The address book on its own *)

InitAddress ==
    /\ EmptyStore
    /\ now = 0
    /\ last = Started
    /\ slugIn = <<>>
    /\ slugOut = NoSlug
    /\ EmptyShelf

AddressIds == 1..MaxAddresses

DoAddressCreate ==
    /\ Len(addresses) < MaxAddresses
    /\ \E u \in Users, dto \in CreateAddressDtos : AddressCreate(u, dto)
DoAddressUpdate ==
    \E a \in AddressIds, u \in Users, dto \in UpdateAddressDtos : AddressUpdate(a, u, dto)
DoAddressSetAsDefault == \E a \in AddressIds, u \in Users : AddressSetAsDefault(a, u)
DoAddressRemove == \E a \in AddressIds, u \in Users : AddressRemove(a, u)
DoAddressFindAll == \E u \in Users : AddressFindAllByUser(u)

NextAddress ==
    \/ DoAddressCreate
    \/ DoAddressUpdate
    \/ DoAddressSetAsDefault
    \/ DoAddressRemove
    \/ DoAddressFindAll

SpecAddress == InitAddress /\ [][NextAddress]_vars

----------------------------------------------------------------------------
(* The catalog on its own: categories, subcategories and products *)

\* "a", "A" and "b": the first two share the slug "a"
CategoryNames == {<<"a">>, <<"A">>, <<"b">>}

\* "a b" and "A-B" share the slug "a-b"; U+00E9 gives "e"; "!" gives the
\* empty slug
ProductNames == {<<"a", " ", "b">>, <<"A", "-", "B">>, <<"e_acute">>, <<"!">>}

CategoryIds == 1..MaxCategories
\* subcategory ids a request may name
SubcategoryIds == {1}
ProductIds == 1..MaxProducts

CreateCategoryDtos == {[name |-> n] : n \in CategoryNames}

CreateSubcategoryDtos ==
    {[name |-> n, categoryId |-> c] : n \in CategoryNames, c \in CategoryIds}

CreateProductDtos ==
    {[name |-> n, categoryId |-> c] : n \in ProductNames, c \in CategoryIds}
    \cup {[name |-> n, categoryId |-> c, subcategoryId |-> sc] :
            n \in ProductNames, c \in CategoryIds, sc \in SubcategoryIds}

\* UpdateProductDto = PartialType(CreateProductDto) plus isActive
UpdateProductDtos ==
    {[name |-> n] : n \in ProductNames}
    \cup {[isActive |-> b] : b \in BOOLEAN}
    \cup {[categoryId |-> c] : c \in CategoryIds}
    \cup {[subcategoryId |-> sc] : sc \in SubcategoryIds}

InitCatalog ==
    /\ EmptyStore
    /\ now = 0
    /\ last = Started
    /\ slugIn = <<>>
    /\ slugOut = NoSlug
    /\ EmptyShelf

DoCategoriesCreate ==
    /\ Len(categories) < MaxCategories
    /\ \E dto \in CreateCategoryDtos : CategoriesCreate(dto)
DoProductsCreate ==
    /\ Len(products) < MaxProducts
    /\ \E dto \in CreateProductDtos : ProductsCreate(dto)
DoProductsUpdate == \E id \in ProductIds, dto \in UpdateProductDtos : ProductsUpdate(id, dto)
DoProductsRemove == \E id \in ProductIds : ProductsRemove(id)

NextCatalog ==
    \/ DoCategoriesCreate
    \/ DoProductsCreate
    \/ DoProductsUpdate
    \/ DoProductsRemove

SpecCatalog == InitCatalog /\ [][NextCatalog]_vars

----------------------------------------------------------------------------
(* A seeded catalog: what one categories.create and two products.create    *)
(* calls leave behind.                                                     *)

SeedCategories == <<[CategoryDefaults EXCEPT !.name = <<"a">>, !.slug = categoryGenerateSlug(<<"a">>)]>>

SeedProduct(name) ==
    [ProductDefaults EXCEPT !.name = name, !.slug = generateSlug(name), !.categoryId = 1]

SeedProducts == <<SeedProduct(<<"a", " ", "b">>), SeedProduct(<<"e_acute">>)>>

----------------------------------------------------------------------------
(* Subcategories, over two seeded categories *)

SeedCategory(name) ==
    [CategoryDefaults EXCEPT !.name = name, !.slug = categoryGenerateSlug(name)]

TwoCategories == <<SeedCategory(<<"a">>), SeedCategory(<<"b">>)>>

\* UpdateSubcategoryDto = PartialType(CreateSubcategoryDto) plus isActive
UpdateSubcategoryDtos ==
    {[name |-> n] : n \in CategoryNames}
    \cup {[categoryId |-> c] : c \in RowIds(TwoCategories)}
    \cup {[name |-> n, categoryId |-> c] : n \in CategoryNames, c \in RowIds(TwoCategories)}

InitSubcategory ==
    /\ categories = TwoCategories
    /\ subcategories = <<>>
    /\ products = <<>>
    /\ variants = <<>>
    /\ addresses = <<>>
    /\ carts = {}
    /\ cartItems = {}
    /\ nextCartItemId = 1
    /\ orders = <<>>
    /\ now = 0
    /\ last = Started
    /\ slugIn = <<>>
    /\ slugOut = NoSlug
    /\ EmptyShelf

DoCreateSubcategory ==
    /\ Len(subcategories) < MaxSubcategories
    /\ \E n \in CategoryNames, c \in RowIds(TwoCategories) :
          CreateSubcategory([name |-> n, categoryId |-> c])
DoUpdateSubcategory ==
    \E id \in 1..MaxSubcategories, dto \in UpdateSubcategoryDtos : UpdateSubcategory(id, dto)
DoRemoveSubcategory == \E id \in 1..MaxSubcategories : RemoveSubcategory(id)

NextSubcategory ==
    \/ DoCreateSubcategory
    \/ DoUpdateSubcategory
    \/ DoRemoveSubcategory

SpecSubcategory == InitSubcategory /\ [][NextSubcategory]_vars

----------------------------------------------------------------------------
(* Products placed in subcategories, over two seeded categories *)

PlacedProductDtos ==
    {[name |-> n, categoryId |-> c] :
        n \in {<<"a", " ", "b">>, <<"e_acute">>}, c \in RowIds(TwoCategories)}
    \cup {[name |-> n, categoryId |-> c, subcategoryId |-> sc] :
            n \in {<<"a", " ", "b">>, <<"e_acute">>}, c \in RowIds(TwoCategories),
            sc \in 1..MaxSubcategories}

MovedProductDtos ==
    {[categoryId |-> c] : c \in RowIds(TwoCategories)}
    \cup {[subcategoryId |-> sc] : sc \in 1..MaxSubcategories}
    \cup {[categoryId |-> c, subcategoryId |-> sc] :
            c \in RowIds(TwoCategories), sc \in 1..MaxSubcategories}

DoPlaceSubcategory ==
    /\ Len(subcategories) < MaxSubcategories
    /\ \E c \in RowIds(TwoCategories) :
          CreateSubcategory([name |-> <<"a">>, categoryId |-> c])
DoPlaceProduct ==
    /\ Len(products) < MaxProducts
    /\ \E dto \in PlacedProductDtos : ProductsCreate(dto)
DoMoveProduct ==
    \E id \in 1..MaxProducts, dto \in MovedProductDtos : ProductsUpdate(id, dto)
DoMoveSubcategory ==
    \E id \in 1..MaxSubcategories, c \in RowIds(TwoCategories) :
        UpdateSubcategory(id, [categoryId |-> c])

NextPlacement ==
    \/ DoPlaceSubcategory
    \/ DoPlaceProduct
    \/ DoMoveProduct
    \/ DoMoveSubcategory

SpecPlacement == InitSubcategory /\ [][NextPlacement]_vars

----------------------------------------------------------------------------
(* Variants on their own, over the seeded products *)

Skus == {"SKU-1", "SKU-2"}
Prices == {5, 10}
Colors == {"Negro", "Blanco"}
VariantIds == 1..MaxVariants

CreateVariantDtos ==
    {[productId |-> p, sku |-> k, stock |-> st, price |-> 10,
      size |-> "M", color |-> "Negro", gender |-> "MEN"] :
        p \in 1..3, k \in Skus, st \in 0..MaxStock}

\* UpdateVariantDto = PartialType(CreateVariantDto) plus isActive
UpdateVariantDtos ==
    {[stock |-> st] : st \in 0..MaxStock}
    \cup {[isActive |-> b] : b \in BOOLEAN}
    \cup {[stock |-> st, isActive |-> b] : st \in 0..MaxStock, b \in BOOLEAN}
    \cup {[price |-> pr] : pr \in Prices}
    \cup {[sku |-> k] : k \in Skus}
    \cup {[color |-> c] : c \in Colors}

InitVariant ==
    /\ categories = SeedCategories
    /\ subcategories = <<>>
    /\ products = SeedProducts
    /\ variants = <<>>
    /\ addresses = <<>>
    /\ carts = {}
    /\ cartItems = {}
    /\ nextCartItemId = 1
    /\ orders = <<>>
    /\ now = 0
    /\ last = Started
    /\ slugIn = <<>>
    /\ slugOut = NoSlug
    /\ EmptyShelf

DoCreateVariant ==
    /\ Len(variants) < MaxVariants
    /\ \E dto \in CreateVariantDtos : CreateVariant(dto)
DoUpdateVariant == \E id \in VariantIds, dto \in UpdateVariantDtos : UpdateVariant(id, dto)
DoRemoveVariant == \E id \in VariantIds : RemoveVariant(id)

NextVariant == DoCreateVariant \/ DoUpdateVariant \/ DoRemoveVariant

SpecVariant == InitVariant /\ [][NextVariant]_vars

----------------------------------------------------------------------------
(* Checkout: carts and orders over a seeded catalog and address book *)

SeedVariant(productId, sku, stock, price, size, color, gender) ==
    [VariantDefaults EXCEPT !.productId = productId, !.sku = sku, !.stock = stock,
                            !.price = price, !.isActive = stock > 0, !.size = size,
                            !.color = color, !.gender = gender]

\* two variants of product 1
SeedVariants ==
    <<SeedVariant(1, "SKU-1", MaxStock, 10, "M", "Negro", "MEN"),
      SeedVariant(1, "SKU-2", 1, 5, "S", "Blanco", "WOMEN")>>

\* u1 and u2 each created an address; u1 created and removed another
SeedAddresses ==
    <<[AddressDefaults EXCEPT !.userId = "u1", !.alias = "home"],
      [AddressDefaults EXCEPT !.userId = "u2", !.alias = "home"],
      [AddressDefaults EXCEPT !.userId = "u1", !.alias = "home", !.isActive = FALSE]>>

InitCheckout ==
    /\ categories = SeedCategories
    /\ subcategories = <<>>
    /\ products = SeedProducts
    /\ variants = SeedVariants
    /\ addresses = SeedAddresses
    /\ carts = {}
    /\ cartItems = {}
    /\ nextCartItemId = 1
    /\ orders = <<>>
    /\ now = 0
    /\ last = Started
    /\ slugIn = <<>>
    /\ slugOut = NoSlug
    /\ EmptyShelf

\* the user who shops; u2 only owns an address
Shoppers == {"u1"}

\* variant 3 does not exist
AddToCartDtos == {[variantId |-> v, quantity |-> q] : v \in 1..3, q \in 1..MaxStock}
\* address 4 does not exist
CreateOrderDtos == {[addressId |-> a, paymentMethod |-> "PAGO_MOVIL"] : a \in 1..4}
\* out of stock, one unit, fully stocked; or a new price
RestockDtos == {[stock |-> st] : st \in {0, 1, MaxStock}} \cup {[price |-> pr] : pr \in Prices}

DoAddToCart ==
    /\ nextCartItemId <= MaxCartItems
    /\ \E u \in Shoppers, dto \in AddToCartDtos : AddToCart(u, dto)
DoCreateOrder ==
    /\ Len(orders) < MaxOrders
    /\ \E u \in Shoppers, dto \in CreateOrderDtos : CreateOrder(u, dto)
DoRestock == \E dto \in RestockDtos : UpdateVariant(1, dto)
DoWithdrawVariant == RemoveVariant(2)
DoWithdrawProduct == ProductsRemove(1)

Next ==
    \/ DoAddToCart
    \/ DoCreateOrder
    \/ DoRestock
    \/ DoWithdrawVariant
    \/ DoWithdrawProduct

Spec == InitCheckout /\ [][Next]_vars

----------------------------------------------------------------------------
(* Placed orders: their status and who may read them.  u1 ordered one unit *)
(* of variant 1 and u2 one unit of variant 2, each to their own address.   *)

PlacedLine(id, userId, variantId) ==
    [id |-> id, cartId |-> userId, variantId |-> variantId, quantity |-> 1,
     expiresAt |-> ExpiryDays]

PlacedLines == <<PlacedLine(1, "u1", 1), PlacedLine(2, "u2", 2)>>

PlacedOrder(k) ==
    newOrder(PlacedLines[k].cartId, [addressId |-> k, paymentMethod |-> "PAGO_MOVIL"],
             <<PlacedLines[k]>>)

InitOrders ==
    /\ categories = SeedCategories
    /\ subcategories = <<>>
    /\ products = SeedProducts
    /\ variants = decrementStock(SeedVariants, PlacedLines)
    /\ addresses = SeedAddresses
    /\ carts = Users
    /\ cartItems = {}
    /\ nextCartItemId = 3
    /\ orders = <<PlacedOrder(1), PlacedOrder(2)>>
    /\ now = 0
    /\ last = Started
    /\ slugIn = <<>>
    /\ slugOut = NoSlug
    /\ EmptyShelf

\* UpdateOrderStatusDto: status, and adminNotes if given
UpdateOrderStatusDtos ==
    {[status |-> st] : st \in OrderStatuses}
    \cup {[status |-> "CANCELADO", adminNotes |-> "note"]}

\* order 3 does not exist
DoUpdateOrderStatus ==
    \E id \in {1, 3}, dto \in UpdateOrderStatusDtos, role \in Roles :
        UpdateOrderStatus(id, dto, role)
DoGetOrderById ==
    \E id \in 1..3, u \in Users, role \in Roles : GetOrderById(id, u, role)
DoNextDay == Tick /\ now' = ExpiryDays

NextOrders ==
    \/ DoUpdateOrderStatus
    \/ DoGetOrderById
    \/ DoNextDay

SpecOrders == InitOrders /\ [][NextOrders]_vars

----------------------------------------------------------------------------
(* Placed orders against the stock they took: the two placed orders are  *)
(* moved through the statuses while u1 holds a cart line.                 *)

DoRefill == cartItems = {} /\ AddToCart("u1", [variantId |-> 1, quantity |-> 1])
DoMoveOrder ==
    \E id \in 1..2, st \in OrderStatuses : UpdateOrderStatus(id, [status |-> st], "ADMIN")

NextCancel == DoRefill \/ DoMoveOrder

SpecCancel == InitOrders /\ [][NextCancel]_vars

----------------------------------------------------------------------------
(* Removals, over the seeded catalog: u1 keeps a favorite, a cart line,   *)
(* an image and a subcategory, and everything removable gets removed.     *)

DoShelveSubcategory ==
    /\ Len(subcategories) < MaxSubcategories
    /\ CreateSubcategory([name |-> <<"b">>, categoryId |-> 1])
DoShelveImage ==
    /\ Len(images) < MaxImages
    /\ AddImage([productId |-> 1, order |-> 0])
DoShelveFavorite ==
    /\ nextFavoriteId <= MaxFavorites
    /\ AddFavorite("u1", [productId |-> 2])
DoShelveCartItem ==
    /\ nextCartItemId <= MaxCartItems
    /\ AddToCart("u1", [variantId |-> 1, quantity |-> 1])
DoDropCategory == CategoriesRemove(1)
DoDropSubcategory == \E id \in 1..MaxSubcategories : RemoveSubcategory(id)
DoDropProduct == \E id \in 1..Len(SeedProducts) : ProductsRemove(id)
DoDropVariant == RemoveVariant(1)
DoDropImage == \E id \in 1..MaxImages : RemoveImage(id)
DoDropAddress == \E u \in Users : AddressRemove(1, u)
DoDropFavorite == \E u \in Users, id \in 1..MaxFavorites : RemoveFavorite(u, id)
DoDropCartItem == \E u \in Users, id \in 1..MaxCartItems : RemoveCartItem(u, id)

NextRemoval ==
    \/ DoShelveSubcategory
    \/ DoShelveImage
    \/ DoShelveFavorite
    \/ DoShelveCartItem
    \/ DoDropCategory
    \/ DoDropSubcategory
    \/ DoDropProduct
    \/ DoDropVariant
    \/ DoDropImage
    \/ DoDropAddress
    \/ DoDropFavorite
    \/ DoDropCartItem

SpecRemoval == InitCheckout /\ [][NextRemoval]_vars

----------------------------------------------------------------------------
(* Two users order at once, over the seeded catalog: the carts are filled *)
(* first, then each user places one order, statement by statement.       *)

HasOrdered(u) == \E o \in RowIds(orders) : orders[o].userId = u

DoFillCart ==
    /\ inflight = <<>> /\ orders = <<>>
    /\ nextCartItemId <= MaxCartItems
    /\ \E u \in Users, v \in 1..Len(SeedVariants), q \in 1..MaxStock :
          AddToCart(u, [variantId |-> v, quantity |-> q])
\* u1 delivers to address 1, u2 to address 2
DoOrderLoadCart ==
    \E u \in Users :
        /\ ~HasOrdered(u)
        /\ OrderLoadCart(u, u, [addressId |-> IF u = "u1" THEN 1 ELSE 2,
                                paymentMethod |-> "PAGO_MOVIL"])
DoOrderLoadAddress == \E u \in Users : OrderLoadAddress(u)
DoOrderInsert == \E u \in Users : OrderInsert(u)
DoOrderDecrement == \E u \in Users : OrderDecrement(u)
DoOrderReload == \E u \in Users : OrderReload(u)
DoOrderDeactivate == \E u \in Users : OrderDeactivate(u)
DoOrderClearCart == \E u \in Users : OrderClearCart(u)

NextOrderRace ==
    \/ DoFillCart
    \/ DoOrderLoadCart
    \/ DoOrderLoadAddress
    \/ DoOrderInsert
    \/ DoOrderDecrement
    \/ DoOrderReload
    \/ DoOrderDeactivate
    \/ DoOrderClearCart

SpecOrderRace == InitCheckout /\ [][NextOrderRace]_vars

----------------------------------------------------------------------------
(* An order that stops half way: u1 fills the cart, then places orders   *)
(* statement by statement, one call at a time, and a call may stop       *)
(* between its insert and its last statement.                            *)

DoFailureFill ==
    /\ inflight = <<>> /\ orders = <<>>
    /\ nextCartItemId <= MaxCartItems
    /\ \E v \in 1..Len(SeedVariants), q \in 1..MaxStock :
          AddToCart("u1", [variantId |-> v, quantity |-> q])
DoFailureLoadCart ==
    /\ Len(orders) <= MaxOrders
    /\ OrderLoadCart("u1", "u1", [addressId |-> 1, paymentMethod |-> "PAGO_MOVIL"])
DoOrderFail == \E u \in Users : OrderFail(u)

NextOrderFailure ==
    \/ DoFailureFill
    \/ DoFailureLoadCart
    \/ DoOrderLoadAddress
    \/ DoOrderInsert
    \/ DoOrderDecrement
    \/ DoOrderReload
    \/ DoOrderDeactivate
    \/ DoOrderClearCart
    \/ DoOrderFail

SpecOrderFailure == InitCheckout /\ [][NextOrderFailure]_vars

----------------------------------------------------------------------------
(* One user submits the order twice: u1 fills the cart, then two         *)
(* requests of u1 place an order, statement by statement.                *)

Submissions == {"s1", "s2"}

DoSubmitLoadCart ==
    /\ Len(orders) <= MaxOrders
    /\ \E c \in Submissions :
          OrderLoadCart(c, "u1", [addressId |-> 1, paymentMethod |-> "PAGO_MOVIL"])
DoSubmitLoadAddress == \E c \in Submissions : OrderLoadAddress(c)
DoSubmitInsert == \E c \in Submissions : OrderInsert(c)
DoSubmitDecrement == \E c \in Submissions : OrderDecrement(c)
DoSubmitReload == \E c \in Submissions : OrderReload(c)
DoSubmitDeactivate == \E c \in Submissions : OrderDeactivate(c)
DoSubmitClearCart == \E c \in Submissions : OrderClearCart(c)

NextDoubleSubmit ==
    \/ DoFailureFill
    \/ DoSubmitLoadCart
    \/ DoSubmitLoadAddress
    \/ DoSubmitInsert
    \/ DoSubmitDecrement
    \/ DoSubmitReload
    \/ DoSubmitDeactivate
    \/ DoSubmitClearCart

SpecDoubleSubmit == InitCheckout /\ [][NextDoubleSubmit]_vars

----------------------------------------------------------------------------
(* Default-address writes of two callers at once.  Addresses are created  *)
(* while no request is under way; then the callers write defaults.        *)

Callers == {"c1", "c2"}

\* a create with isDefault under way will add a row
RowsToCome == Cardinality({c \in DOMAIN inflight : inflight[c].op = "address.create"})

DoPlainCreate ==
    /\ inflight = <<>>
    /\ Len(addresses) < MaxAddresses
    /\ \E u \in Users : AddressCreate(u, [alias |-> "home"])
DoDefaultFind ==
    \E c \in Callers, op \in {"address.setAsDefault", "address.update"},
       a \in AddressIds, u \in Users : DefaultFind(c, op, a, u)
DoDefaultCreateSweep ==
    /\ Len(addresses) + RowsToCome < MaxAddresses
    /\ \E c \in Callers, u \in Users : DefaultCreateSweep(c, u)
DoDefaultSweep == \E c \in Callers : DefaultSweep(c)
DoDefaultWrite == \E c \in Callers : DefaultWrite(c)

NextDefaultRace ==
    \/ DoPlainCreate
    \/ DoDefaultFind
    \/ DoDefaultCreateSweep
    \/ DoDefaultSweep
    \/ DoDefaultWrite

SpecDefaultRace == InitAddress /\ [][NextDefaultRace]_vars

----------------------------------------------------------------------------
(* Carts over time, over the seeded catalog *)

UpdateCartItemDtos == {[quantity |-> q] : q \in 1..MaxStock}
CartItemIds == 1..MaxCartItems

DoGetCart == \E u \in Users : GetCartWithTotals(u)
DoCartAdd ==
    /\ nextCartItemId <= MaxCartItems
    /\ \E u \in Users, dto \in AddToCartDtos : AddToCart(u, dto)
DoUpdateCartItem ==
    \E u \in Users, id \in CartItemIds, dto \in UpdateCartItemDtos : UpdateCartItem(u, id, dto)
DoRemoveCartItem == \E u \in Users, id \in CartItemIds : RemoveCartItem(u, id)
DoStockChange == \E st \in {1, MaxStock} : UpdateVariant(1, [stock |-> st])

NextCart ==
    \/ Tick
    \/ DoGetCart
    \/ DoCartAdd
    \/ DoUpdateCartItem
    \/ DoRemoveCartItem
    \/ DoStockChange

SpecCart == InitCheckout /\ [][NextCart]_vars

----------------------------------------------------------------------------
(* One cart against a changing stock, over the seeded catalog: variant 1 *)
(* is restocked or sold out and the product may be withdrawn.            *)

DoStockAdd ==
    /\ nextCartItemId <= MaxCartItems
    /\ \E dto \in AddToCartDtos : AddToCart("u1", dto)
DoStockUpdate ==
    \E id \in CartItemIds, dto \in UpdateCartItemDtos : UpdateCartItem("u1", id, dto)
DoStockLevel == \E st \in {0, 1, MaxStock} : UpdateVariant(1, [stock |-> st])

NextCartStock ==
    \/ Tick
    \/ DoStockAdd
    \/ DoStockUpdate
    \/ DoStockLevel
    \/ DoWithdrawProduct

SpecCartStock == InitCheckout /\ [][NextCartStock]_vars

----------------------------------------------------------------------------
(* The stock of the variants under every operation that writes or reads  *)
(* it, one request at a time, over the seeded catalog.                    *)

NewVariantDtos ==
    {[productId |-> 1, sku |-> "SKU-3", stock |-> st, price |-> 10,
      size |-> "M", color |-> "Negro", gender |-> "MEN"] : st \in 0..MaxStock}

DoStockCreateVariant ==
    /\ Len(variants) <= MaxVariants
    /\ \E dto \in NewVariantDtos : CreateVariant(dto)
DoStockOrder ==
    /\ Len(orders) <= MaxOrders
    /\ CreateOrder("u1", [addressId |-> 1, paymentMethod |-> "PAGO_MOVIL"])

NextStock ==
    \/ DoStockCreateVariant
    \/ DoStockLevel
    \/ DoStockAdd
    \/ DoStockUpdate
    \/ DoStockOrder

SpecStock == InitCheckout /\ [][NextStock]_vars

----------------------------------------------------------------------------
(* Orders on a cart that ages, over the seeded catalog *)

NextAgedCart ==
    \/ Tick
    \/ DoStockAdd
    \/ DoStockOrder

SpecAgedCart == InitCheckout /\ [][NextAgedCart]_vars

----------------------------------------------------------------------------
(* The rows of another user.  u2 has a default address, a cart line that *)
(* has expired and a favorite; every request is made by u1, with ids of  *)
(* both users.                                                            *)

InitOwnership ==
    /\ categories = SeedCategories
    /\ subcategories = <<>>
    /\ products = SeedProducts
    /\ variants = SeedVariants
    /\ addresses = [SeedAddresses EXCEPT ![2].isDefault = TRUE]
    /\ carts = {"u2"}
    /\ cartItems = {[id |-> 1, cartId |-> "u2", variantId |-> 1, quantity |-> 1,
                     expiresAt |-> ExpiryDays]}
    /\ nextCartItemId = 2
    /\ orders = <<>>
    /\ now = ExpiryDays + 1
    /\ last = Started
    /\ slugIn = <<>>
    /\ slugOut = NoSlug
    /\ images = <<>>
    /\ favorites = {[id |-> 1, userId |-> "u2", productId |-> 1]}
    /\ nextFavoriteId = 2
    /\ inflight = <<>>

DoOwnAddressCreate ==
    /\ Len(addresses) <= MaxAddresses
    /\ AddressCreate("u1", NewDefaultDto)
DoOwnAddressUpdate ==
    \E a \in AddressIds, dto \in {DefaultDto, [alias |-> "home"]} : AddressUpdate(a, "u1", dto)
DoOwnAddressSetAsDefault == \E a \in AddressIds : AddressSetAsDefault(a, "u1")
DoOwnAddressRemove == \E a \in AddressIds : AddressRemove(a, "u1")
DoOwnAddressFindOne == \E a \in AddressIds : AddressFindOne(a, "u1")
DoOwnAddressFindAll == AddressFindAllByUser("u1")
DoOwnCartAdd ==
    /\ nextCartItemId <= MaxCartItems
    /\ \E v \in 1..Len(SeedVariants) : AddToCart("u1", [variantId |-> v, quantity |-> 1])
DoOwnCartUpdate == \E id \in CartItemIds : UpdateCartItem("u1", id, [quantity |-> 1])
DoOwnCartRemove == \E id \in CartItemIds : RemoveCartItem("u1", id)
DoOwnCartGet == GetCartWithTotals("u1")
DoOwnCartClear == ClearCart("u1")
DoOwnFavoriteAdd ==
    /\ nextFavoriteId <= MaxFavorites
    /\ \E p \in 1..Len(SeedProducts) : AddFavorite("u1", [productId |-> p])
DoOwnFavoriteRemove == \E id \in 1..MaxFavorites : RemoveFavorite("u1", id)
DoOwnFavoritesGet == GetFavorites("u1")
DoOwnFavoritesClear == ClearFavorites("u1")

NextOwnership ==
    \/ DoOwnAddressCreate
    \/ DoOwnAddressUpdate
    \/ DoOwnAddressSetAsDefault
    \/ DoOwnAddressRemove
    \/ DoOwnAddressFindOne
    \/ DoOwnAddressFindAll
    \/ DoOwnCartAdd
    \/ DoOwnCartUpdate
    \/ DoOwnCartRemove
    \/ DoOwnCartGet
    \/ DoOwnCartClear
    \/ DoOwnFavoriteAdd
    \/ DoOwnFavoriteRemove
    \/ DoOwnFavoritesGet
    \/ DoOwnFavoritesClear

SpecOwnership == InitOwnership /\ [][NextOwnership]_vars

----------------------------------------------------------------------------
(* Orders under later catalog edits, over the seeded catalog *)

Restyle == [size |-> "S", color |-> "Blanco", gender |-> "WOMEN"]
Rename == [name |-> <<"A", "-", "B">>]

DoSnapshotAdd ==
    /\ nextCartItemId <= MaxCartItems
    /\ \E u \in Shoppers, v \in 1..Len(SeedVariants) :
          AddToCart(u, [variantId |-> v, quantity |-> 1])
DoSnapshotOrder ==
    /\ Len(orders) <= MaxOrders
    /\ \E u \in Shoppers : CreateOrder(u, [addressId |-> 1, paymentMethod |-> "PAGO_MOVIL"])
DoRenameProduct == ProductsUpdate(1, Rename)
DoRemoveProduct == ProductsRemove(1)
DoEditVariant == \E dto \in {Restyle, [price |-> 5]} : UpdateVariant(1, dto)
DoRemoveVariant2 == RemoveVariant(2)
DoRenameCategory == CategoriesUpdate(1, [name |-> <<"b">>])
DoRemoveCategory == CategoriesRemove(1)

NextSnapshot ==
    \/ DoSnapshotAdd
    \/ DoSnapshotOrder
    \/ DoRenameProduct
    \/ DoRemoveProduct
    \/ DoEditVariant
    \/ DoRemoveVariant2
    \/ DoRenameCategory
    \/ DoRemoveCategory

SpecSnapshot == InitCheckout /\ [][NextSnapshot]_vars

----------------------------------------------------------------------------
(* Claims *)

DefaultAddresses(u) ==
    {i \in RowIds(addresses) :
        addresses[i].userId = u /\ addresses[i].isActive /\ addresses[i].isDefault}

\* C4: after any sequence of AddressService.create, update, setAsDefault
\* and remove calls, every user has at most one address that is active and
\* default.
C4_AtMostOneDefault == \A u \in Users : Cardinality(DefaultAddresses(u)) <= 1

\* C4 witness: a user holds a default address and a second active address
\* that was default before, and the last call set the default.
C4_Witness ==
    /\ last.op \in {"address.create", "address.update", "address.setAsDefault"}
    /\ last.status = "ok"
    /\ \E u \in Users :
          /\ DefaultAddresses(u) = {last.id}
          /\ \E j \in RowIds(addresses) :
                j # last.id /\ addresses[j].userId = u /\ addresses[j].isActive

\* C10: the output of generateSlug holds only a-z, 0-9 and '-', does not
\* begin or end with '-', holds no two consecutive '-', and is a fixed point
\* of generateSlug; the products and the categories copy agree.
IsSlug(s) ==
    /\ \A i \in 1..Len(s) : s[i] \in LowerLetters \cup Digits \cup {"-"}
    /\ s # <<>> => s[1] # "-" /\ s[Len(s)] # "-"
    /\ \A i \in 1..(Len(s) - 1) : ~(s[i] = "-" /\ s[i + 1] = "-")

C10_SlugShape ==
    /\ "product" \in slugOut.done =>
          IsSlug(slugOut.product) /\ generateSlug(slugOut.product) = slugOut.product
    /\ "category" \in slugOut.done =>
          /\ IsSlug(slugOut.category)
          /\ categoryGenerateSlug(slugOut.category) = slugOut.category

\* C10 witness: a text with upper case, an accent, a run of separators and
\* separators at both ends has been turned into a slug.
C10_Witness ==
    /\ slugOut.done = {"product", "category"}
    /\ slugIn = <<" ", "E_ACUTE", "-", "!">>
    /\ slugOut.product = <<"e">>

\* C9: no two Product rows, active or not, hold the same slug; a create or
\* a rename whose derived slug another product holds (a soft-deleted one
\* too) answers Conflict and changes no product.
C9_SlugsDistinct ==
    \A p, q \in RowIds(products) : p # q => products[p].slug # products[q].slug

C9_ConflictStep ==
    /\ last'.op = "products.create"
       /\ (\E q \in RowIds(products) : products[q].slug = last'.slug)
       => last'.status = "Conflict" /\ UNCHANGED products
    /\ last'.op = "products.update" /\ last'.renamed /\ last'.id \in RowIds(products)
       /\ (\E q \in RowIds(products) \ {last'.id} : products[q].slug = last'.slug)
       => last'.status = "Conflict" /\ UNCHANGED products

C9_UniqueSlug == []C9_SlugsDistinct /\ [][C9_ConflictStep]_vars

\* C9 witness: a create was refused because a soft-deleted product holds
\* the slug that a different name derives to.
C9_Witness ==
    /\ last.op = "products.create"
    /\ last.status = "Conflict"
    /\ \E p \in RowIds(products) :
          /\ products[p].slug = last.slug
          /\ ~products[p].isActive
          /\ products[p].name = <<"a", " ", "b">>

\* C5: right after a successful createVariant or updateVariant the written
\* variant has isActive = (stock > 0), whatever isActive the request
\* carried and whether or not it carried a stock.
C5_ActiveIffStock ==
    last.op \in {"products.createVariant", "products.updateVariant"} /\ last.status = "ok"
    => variants[last.id].isActive = (variants[last.id].stock > 0)

\* C5 witness: an update that carried isActive = false and no stock left a
\* stocked variant active.
C5_Witness ==
    /\ last.op = "products.updateVariant"
    /\ last.status = "ok"
    /\ last.dto = [isActive |-> FALSE]
    /\ variants[last.id].stock > 0
    /\ variants[last.id].isActive

LatestOrder == orders[Len(orders)]

OrderPlaced == last.op = "orders.create" /\ last.status = "ok"

\* C1: a successful createOrder by u adds exactly one Order, owned by u and
\* PENDING_PAYMENT, with exactly one OrderItem per CartItem of u's cart
\* (same variant, same quantity); every ordered variant's stock drops by
\* the line's quantity and u's cart is left without items.
C1_Step ==
    last'.op = "orders.create" /\ last'.status = "ok" =>
        LET u == last'.userId
            mine == {i \in cartItems : i.cartId = u}
            placed == orders'[Len(orders')]
        IN  /\ Len(orders') = Len(orders) + 1
            /\ SubSeq(orders', 1, Len(orders)) = orders
            /\ placed.userId = u
            /\ placed.status = "PENDING_PAYMENT"
            /\ Len(placed.items) = Cardinality(mine)
            /\ \A i \in mine :
                  Cardinality({k \in 1..Len(placed.items) :
                                  /\ placed.items[k].variantId = i.variantId
                                  /\ placed.items[k].quantity = i.quantity}) = 1
            /\ \A i \in mine :
                  variants'[i.variantId].stock = variants[i.variantId].stock - i.quantity
            /\ {i \in cartItems' : i.cartId = u} = {}

C1_OrderPlaced == [][C1_Step]_vars

\* C1 witness: the cart [variant 1 at 10 x 2, variant 2 at 5 x 1] was
\* ordered: two items, subtotal 25, both stocks at 0, the cart empty.
C1_Witness ==
    /\ OrderPlaced
    /\ Len(LatestOrder.items) = 2
    /\ LatestOrder.subtotal = 25
    /\ variants[1].stock = 0 /\ variants[2].stock = 0
    /\ {i \in cartItems : i.cartId = last.userId} = {}

\* a precondition of createOrder(u, dto) fails in the current state
C2_PreconditionFails(u, dto) ==
    LET mine == {i \in cartItems : i.cartId = u}
    IN  \/ u \notin carts
        \/ mine = {}
        \/ dto.addressId \notin RowIds(addresses)
        \/ addresses[dto.addressId].userId # u
        \/ ~addresses[dto.addressId].isActive
        \/ \E i \in mine :
              \/ ~variants[i.variantId].isActive
              \/ ~products[variants[i.variantId].productId].isActive
              \/ i.quantity > variants[i.variantId].stock

\* C2: a createOrder whose precondition fails (no or empty cart; address
\* missing, foreign or inactive; a line on an inactive variant or product;
\* a line above the stock) answers an error and writes nothing.
C2_Step ==
    last'.op = "orders.create" /\ C2_PreconditionFails(last'.userId, last'.dto) =>
        /\ last'.status \in {"BadRequest", "NotFound"}
        /\ UNCHANGED <<orders, cartItems, carts, nextCartItemId, variants, products,
                       addresses>>

C2_NoWriteOnFailure == [][C2_Step]_vars

\* C2 witness: an order was refused only because a line asks for more than
\* the stock.
C2_Witness ==
    /\ last.op = "orders.create"
    /\ last.status = "BadRequest"
    /\ last.userId \in carts
    /\ last.dto.addressId \in RowIds(addresses)
    /\ addresses[last.dto.addressId].userId = last.userId
    /\ addresses[last.dto.addressId].isActive
    /\ LET mine == {i \in cartItems : i.cartId = last.userId}
       IN  /\ Cardinality(mine) = 2
           /\ \A i \in mine : /\ variants[i.variantId].isActive
                               /\ products[variants[i.variantId].productId].isActive
           /\ \E i \in mine : i.quantity > variants[i.variantId].stock

RECURSIVE C3_SumLines(_, _)
C3_SumLines(lines, vs) ==
    IF lines = {} THEN 0
    ELSE LET i == CHOOSE x \in lines : TRUE
         IN  vs[i.variantId].price * i.quantity + C3_SumLines(lines \ {i}, vs)

RECURSIVE C3_SumItems(_)
C3_SumItems(items) ==
    IF items = <<>> THEN 0 ELSE Head(items).subtotal + C3_SumItems(Tail(items))

\* C3: a placed order's subtotal is the sum over the cart lines of the
\* variant's price at order time times the quantity, its total equals its
\* subtotal, and every OrderItem's subtotal is its price times its quantity.
C3_Step ==
    last'.op = "orders.create" /\ last'.status = "ok" =>
        LET placed == orders'[Len(orders')]
            mine == {i \in cartItems : i.cartId = last'.userId}
        IN  /\ placed.subtotal = C3_SumLines(mine, variants)
            /\ placed.total = placed.subtotal
            /\ \A k \in 1..Len(placed.items) :
                  placed.items[k].subtotal = placed.items[k].price * placed.items[k].quantity
            /\ placed.subtotal = C3_SumItems(placed.items)

C3_Totals == [][C3_Step]_vars

\* C3 witness: an order of two lines placed after variant 1 was repriced
\* from 10 to 5: 2 x 5 + 1 x 5 = 15.
C3_Witness ==
    /\ OrderPlaced
    /\ Len(LatestOrder.items) = 2
    /\ \E k \in 1..2 : /\ LatestOrder.items[k].variantId = 1
                        /\ LatestOrder.items[k].price = 5
                        /\ LatestOrder.items[k].quantity = 2
    /\ LatestOrder.total = 15

\* no cart holds two lines for one variant
C6_OneLinePerVariant ==
    \A i, j \in cartItems : i.cartId = j.cartId /\ i.variantId = j.variantId => i = j

\* C6 as claimed: a successful addToCart(v, q) turns every line for v that
\* the cart holds, of quantity q0, into a line of quantity q0 + q expiring
\* at the call time + 5 days.
C6_OriginalStep ==
    last'.op = "cart.add" /\ last'.status = "ok" =>
        \A i \in cartItems :
            i.cartId = last'.userId /\ i.variantId = last'.request.variantId =>
                \E j \in cartItems' :
                    /\ j.cartId = i.cartId /\ j.variantId = i.variantId
                    /\ j.quantity = i.quantity + last'.request.quantity
                    /\ j.expiresAt = now + ExpiryDays

C6_Original == []C6_OneLinePerVariant /\ [][C6_OriginalStep]_vars

\* C6, amended: a cart never holds two lines for one variant, and a
\* successful addToCart(v, q) turns a line for v that has not expired
\* (expiresAt >= call time), of quantity q0, into that same line with
\* quantity q0 + q expiring at the call time + 5 days; an expired line for v
\* is deleted and a new line of quantity q is created.
C6_AmendedStep ==
    last'.op = "cart.add" /\ last'.status = "ok" =>
        \A i \in cartItems :
            i.cartId = last'.userId /\ i.variantId = last'.request.variantId =>
                IF i.expiresAt >= now
                THEN \E j \in cartItems' :
                        /\ j.id = i.id /\ j.cartId = i.cartId /\ j.variantId = i.variantId
                        /\ j.quantity = i.quantity + last'.request.quantity
                        /\ j.expiresAt = now + ExpiryDays
                ELSE /\ \A j \in cartItems' : j.id # i.id
                     /\ \E j \in cartItems' :
                           /\ j.cartId = i.cartId /\ j.variantId = i.variantId
                           /\ j.quantity = last'.request.quantity
                           /\ j.expiresAt = now + ExpiryDays

C6_Merge == []C6_OneLinePerVariant /\ [][C6_AmendedStep]_vars

\* C6 witness: on day 5 one more unit was added to a line created on day 0:
\* one line, quantity 2, expiring on day 10.
C6_Witness ==
    /\ last.op = "cart.add"
    /\ last.status = "ok"
    /\ now = ExpiryDays
    /\ last.request.quantity = 1
    /\ \E i \in cartItems :
          /\ i.cartId = last.userId
          /\ i.variantId = last.request.variantId
          /\ i.id = 1
          /\ i.quantity = 2
          /\ i.expiresAt = now + ExpiryDays

CartItemIdsInUse == {i.id : i \in cartItems}

\* C7: a cart read at time t returns no item with expiresAt < t and leaves
\* none in the store, and a deleted item never comes back.
C7_ReadIsClean ==
    last.op = "cart.get" =>
        /\ \A i \in last.items : i.expiresAt >= last.at
        /\ \A i \in cartItems : i.cartId = last.userId => i.expiresAt >= now
        /\ last.items = {i \in cartItems : i.cartId = last.userId}

C7_GoneStep ==
    \A id \in 1..(nextCartItemId - 1) :
        id \notin CartItemIdsInUse => id \notin {i.id : i \in cartItems'}

C7_ExpiredPurged == []C7_ReadIsClean /\ [][C7_GoneStep]_vars

\* C7 witness: on day 6 a read returned one line, renewed on day 5, of the
\* two lines the user had created; the other, due on day 5, is gone.
C7_Witness ==
    /\ last.op = "cart.get"
    /\ last.at = ExpiryDays + 1
    /\ nextCartItemId = 3
    /\ 1 \notin CartItemIdsInUse
    /\ Cardinality(last.items) = 1
    /\ \A i \in last.items : i.expiresAt = 2 * ExpiryDays

\* C8: no catalog operation and no other order changes what an order has
\* stored: its items' productName, variantSize, variantColor,
\* variantGender, price, quantity and subtotal, and its subtotal and total.
C8_Step ==
    \A o \in RowIds(orders) :
        /\ o \in RowIds(orders')
        /\ orders'[o].subtotal = orders[o].subtotal
        /\ orders'[o].total = orders[o].total
        /\ Len(orders'[o].items) = Len(orders[o].items)
        /\ \A k \in 1..Len(orders[o].items) :
              LET before == orders[o].items[k]
                  after == orders'[o].items[k]
              IN  /\ after.productName = before.productName
                  /\ after.variantSize = before.variantSize
                  /\ after.variantColor = before.variantColor
                  /\ after.variantGender = before.variantGender
                  /\ after.price = before.price
                  /\ after.quantity = before.quantity
                  /\ after.subtotal = before.subtotal

C8_SnapshotKept == [][C8_Step]_vars

\* C8 witness: the first of two orders still shows the name, style and
\* price that the product and the variant have since lost.
C8_Witness ==
    /\ Len(orders) = 2
    /\ \E k \in 1..Len(orders[1].items) :
          LET item == orders[1].items[k]
              v == variants[item.variantId]
          IN  /\ item.productName # products[v.productId].name
              /\ item.variantSize # v.size
              /\ item.variantColor # v.color
              /\ item.variantGender # v.gender
              /\ item.price # v.price
    /\ ~products[1].isActive

\* C11: after a successful setAsDefault(a, u), a has isDefault = true, and
\* the list that findAllByUser(u) returns next starts with a and shows
\* isDefault = false on every other address.
C11_AfterSetAsDefault ==
    last.op = "address.setAsDefault" /\ last.status = "ok" =>
        addresses[last.id].isDefault

C11_ListStep ==
    /\ last.op = "address.setAsDefault" /\ last.status = "ok"
    /\ last'.op = "address.findAll"
    /\ last'.userId = addresses[last.id].userId
    => /\ Len(last'.items) >= 1
       /\ last'.items[1].id = last.id
       /\ last'.items[1].isDefault
       /\ \A k \in 2..Len(last'.items) : ~last'.items[k].isDefault

C11_DefaultListedFirst == []C11_AfterSetAsDefault /\ [][C11_ListStep]_vars

\* C11 witness: the oldest of a user's three active addresses was made the
\* default and is listed before the two newer ones.
C11_Witness ==
    /\ last.op = "address.setAsDefault" /\ last.status = "ok" /\ last.id = 1
    /\ LET list == findAllByUser(addresses, addresses[1].userId)
       IN  /\ Len(list) = 3
           /\ list[1].id = 1 /\ list[2].id = 3 /\ list[3].id = 2

\* C12: whatever createSubcategory and updateSubcategory calls were made,
\* no two Subcategory rows of one category share a slug.
C12_SubcategorySlugsDistinct ==
    \A i, j \in RowIds(subcategories) :
        i # j /\ subcategories[i].categoryId = subcategories[j].categoryId =>
            subcategories[i].slug # subcategories[j].slug

\* C13: updateOrderStatus by a role other than USER on an existing order
\* succeeds and leaves the order in the requested status, whatever status
\* it had: also out of ENTREGADO and CANCELADO, and into CANCELADO from
\* anywhere.
C13_Step ==
    /\ last'.op = "orders.updateStatus"
    /\ last'.role # "USER"
    /\ last'.orderId \in RowIds(orders)
    => /\ last'.status = "ok"
       /\ orders'[last'.orderId].status = last'.dto.status

C13_AnyTransition == [][C13_Step]_vars

\* C13 witness: an order that was delivered and later cancelled is back in
\* PENDING_PAYMENT.
C13_Witness ==
    /\ last.op = "orders.updateStatus" /\ last.status = "ok"
    /\ last.dto.status = "PENDING_PAYMENT"
    /\ orders[last.orderId].status = "PENDING_PAYMENT"
    /\ orders[last.orderId].deliveredAt = 0
    /\ orders[last.orderId].cancelledAt = ExpiryDays

C15_ReadAnswer ==
    last.op = "orders.get" =>
        IF last.orderId \notin RowIds(orders) THEN last.status = "NotFound"
        ELSE LET order == orders[last.orderId]
             IN  IF order.userId = last.userId \/ last.role # "USER"
                 THEN last.status = "ok" /\ last.order = order
                 ELSE last.status = "Forbidden" /\ last.order = <<>>

C15_ReadStep ==
    last'.op = "orders.get" =>
        UNCHANGED <<now, categories, subcategories, products, variants, addresses, carts,
                    cartItems, nextCartItemId, orders>>

\* C15: getOrderById answers an existing order exactly to its owner and to
\* callers whose role is not USER, Forbidden to any other USER, NotFound
\* for an id that no order has, and changes nothing.
C15_OwnerOrStaff == []C15_ReadAnswer /\ [][C15_ReadStep]_vars

\* C15 witness: an ADMIN who does not own the order read it after its
\* status had changed.
C15_Witness ==
    /\ last.op = "orders.get" /\ last.status = "ok"
    /\ last.role = "ADMIN"
    /\ last.order.userId # last.userId
    /\ last.order.status = "EN_CAMINO"

\* the timestamp that goes with a status
C18_TimestampOf(status) ==
    [PENDING_PAYMENT |-> "", PAGO_CONFIRMADO |-> "paidAt", EN_CAMINO |-> "shippedAt",
     ENTREGADO |-> "deliveredAt", CANCELADO |-> "cancelledAt"][status]

C18_Timestamps == {"paidAt", "shippedAt", "deliveredAt", "cancelledAt"}

C18_Step ==
    last'.op = "orders.updateStatus" /\ last'.status = "ok" =>
        LET before == orders[last'.orderId]
            after == orders'[last'.orderId]
        IN  /\ \A f \in C18_Timestamps :
                  after[f] = IF f = C18_TimestampOf(last'.dto.status) THEN now ELSE before[f]
            /\ after.items = before.items
            /\ after.subtotal = before.subtotal
            /\ after.total = before.total

C18_KeptStep ==
    \A o \in RowIds(orders), f \in C18_Timestamps :
        orders[o][f] # NoTime => o \in RowIds(orders') /\ orders'[o][f] # NoTime

\* C18: updateOrderStatus writes the current time to the one timestamp of
\* the target status (none for PENDING_PAYMENT) and leaves the other
\* timestamps, the items, the subtotal and the total as they were; no step
\* clears a timestamp.
C18_OneTimestamp == [][C18_Step /\ C18_KeptStep]_vars

\* C18 witness: on day 5 an order paid on day 0 was put back to
\* PENDING_PAYMENT and still carries paidAt = 0.
C18_Witness ==
    /\ last.op = "orders.updateStatus" /\ last.status = "ok"
    /\ last.dto.status = "PENDING_PAYMENT"
    /\ now = ExpiryDays
    /\ orders[last.orderId].status = "PENDING_PAYMENT"
    /\ orders[last.orderId].paidAt = 0
    /\ orders[last.orderId].shippedAt = ExpiryDays

\* table, after the row id was deactivated and nothing else changed
C14_Deactivated(before, after) ==
    /\ Len(after) = Len(before)
    /\ \E id \in RowIds(before) :
          /\ ~after[id].isActive
          /\ after = [before EXCEPT ![id].isActive = FALSE]

C14_SoftStep ==
    /\ Len(products') >= Len(products)
    /\ Len(variants') >= Len(variants)
    /\ Len(images') >= Len(images)
    /\ Len(categories') >= Len(categories)
    /\ Len(subcategories') >= Len(subcategories)
    /\ Len(addresses') >= Len(addresses)
    /\ last'.status = "ok" =>
          /\ last'.op = "products.remove" => C14_Deactivated(products, products')
          /\ last'.op = "products.removeVariant" => C14_Deactivated(variants, variants')
          /\ last'.op = "products.removeImage" => C14_Deactivated(images, images')
          /\ last'.op = "categories.remove" => C14_Deactivated(categories, categories')
          /\ last'.op = "categories.removeSubcategory" =>
                C14_Deactivated(subcategories, subcategories')
          /\ last'.op = "address.remove" => C14_Deactivated(addresses, addresses')

C14_HardStep ==
    last'.status = "ok" =>
        /\ last'.op = "favorites.remove" =>
              /\ \E f \in favorites : f.id = last'.id
              /\ favorites' = {f \in favorites : f.id # last'.id}
        /\ last'.op = "cart.remove" =>
              /\ \E i \in cartItems : i.id = last'.request.id
              /\ \A i \in cartItems' : i.id # last'.request.id

\* C14: removing a Product, ProductVariant, ProductImage, Category,
\* Subcategory or Address only sets the row's isActive to false, and no
\* step makes a row of these tables disappear; removing a Favorite or a
\* CartItem deletes the row.
C14_SoftAndHardDelete == [][C14_SoftStep /\ C14_HardStep]_vars

\* C14 witness: every soft-deleting table holds a deactivated row, while
\* the favorite and the cart line that were created are gone.
C14_Witness ==
    /\ \E i \in RowIds(products) : ~products[i].isActive
    /\ ~variants[1].isActive
    /\ \E i \in RowIds(images) : ~images[i].isActive
    /\ \E i \in RowIds(categories) : ~categories[i].isActive
    /\ \E i \in RowIds(subcategories) : ~subcategories[i].isActive
    /\ ~addresses[1].isActive
    /\ nextFavoriteId > 1 /\ favorites = {}
    /\ nextCartItemId > 1 /\ cartItems = {}
    /\ last.op = "favorites.remove" /\ last.status = "ok"

C16_Step ==
    last'.op = "address.remove" =>
        \A u \in Users :
            (\E a \in RowIds(addresses) : addresses[a].userId = u /\ addresses[a].isActive)
            => \E a \in RowIds(addresses') : addresses'[a].userId = u /\ addresses'[a].isActive

\* C16: a remove call never takes a user's last active address: whoever
\* has an active address before the call has one after it.
C16_KeepsOneAddress == [][C16_Step]_vars

C17_Step ==
    last'.op = "orders.create" /\ last'.status = "ok" =>
        \A i \in {x \in cartItems : x.cartId = last'.userId} :
            LET before == variants[i.variantId]
                after == variants'[i.variantId]
            IN  /\ after.stock = 0 => ~after.isActive
                /\ after.stock > 0 => after.isActive = before.isActive
                /\ after.isActive => after.stock > 0

\* C17: createOrder deactivates every ordered variant that its decrement
\* brings to stock 0 and leaves isActive alone on one that keeps stock, so
\* when it returns every ordered variant that is active has stock > 0.
C17_SoldOutDeactivated == [][C17_Step]_vars

\* C17 witness: an order of one unit of each variant left variant 1 with
\* one unit and active, and variant 2 sold out and inactive.
C17_Witness ==
    /\ last.op = "orders.create" /\ last.status = "ok"
    /\ Len(orders[last.orderId].items) = 2
    /\ variants[1].stock = 1 /\ variants[1].isActive
    /\ variants[2].stock = 0 /\ ~variants[2].isActive

RECURSIVE C19_UnitsInItems(_, _)
C19_UnitsInItems(items, v) ==
    IF items = <<>> THEN 0
    ELSE (IF Head(items).variantId = v THEN Head(items).quantity ELSE 0)
         + C19_UnitsInItems(Tail(items), v)

\* the units of variant v that the placed orders hold
RECURSIVE C19_UnitsOrdered(_, _)
C19_UnitsOrdered(rows, v) ==
    IF rows = <<>> THEN 0
    ELSE C19_UnitsInItems(Head(rows).items, v) + C19_UnitsOrdered(Tail(rows), v)

\* C19: createOrder calls of two users can interleave so that both pass the
\* stock check and both succeed on more units than the variant has: once
\* the calls have returned, every unit of every placed order has been
\* taken off the stock, whatever that leaves (below 0 when the orders
\* together exceed the stock).
C19_EveryOrderDecrements ==
    inflight = <<>> =>
        \A v \in RowIds(variants) :
            variants[v].stock = SeedVariants[v].stock - C19_UnitsOrdered(orders, v)

\* C19 witness: u1 and u2 both ordered variant 1, both calls returned, and
\* the variant is left with a negative stock and still active.
C19_Witness ==
    /\ inflight = <<>>
    /\ Len(orders) = 2
    /\ orders[1].userId # orders[2].userId
    /\ \A o \in 1..2 : C19_UnitsInItems(orders[o].items, 1) > 0
    /\ C19_UnitsOrdered(orders, 1) > SeedVariants[1].stock
    /\ variants[1].stock < 0
    /\ variants[1].isActive

C20_Step ==
    \A c \in DOMAIN inflight :
        c \notin DOMAIN inflight' /\ last'.status = "ok" =>
            /\ addresses'[last'.id].isDefault
            /\ addresses'[last'.id].isActive
            /\ addresses'[last'.id].userId = inflight[c].userId

\* C20: default-address writes sweep first and set their own address last,
\* with nothing in between to stop another write: every such call ends
\* with its own address active and default, whatever a concurrent call has
\* done, so two calls that both swept before either wrote leave two
\* defaults.
C20_WriteAfterSweep == [][C20_Step]_vars

\* C20 witness: both calls have returned and two active addresses of one
\* user are default, the second made so by setAsDefault.
C20_Witness ==
    /\ inflight = <<>>
    /\ last.op = "address.setAsDefault" /\ last.status = "ok"
    /\ \E a, b \in RowIds(addresses) :
          /\ a # b /\ b = last.id
          /\ addresses[a].userId = addresses[b].userId
          /\ addresses[a].isActive /\ addresses[a].isDefault
          /\ addresses[b].isActive /\ addresses[b].isDefault

\* the lines of a call whose decrement has run when the call is at pc
C21_Applied(call) ==
    CASE call.pc = "decrement" -> call.k - 1
      [] call.pc \in {"reload", "deactivate"} -> call.k
      [] call.pc = "clear" -> Len(call.lines)

C21_Step ==
    \A c \in DOMAIN inflight :
        c \notin DOMAIN inflight' /\ last'.status = "failed" =>
            LET call == inflight[c]
            IN  /\ call.orderId \in RowIds(orders')
                /\ orders'[call.orderId].userId = call.userId
                /\ Len(orders'[call.orderId].items) = Len(call.lines)
                /\ \A j \in 1..Len(call.lines) :
                      /\ orders'[call.orderId].items[j].variantId
                            = call.lines[j].line.variantId
                      /\ orders'[call.orderId].items[j].quantity
                            = call.lines[j].line.quantity
                      /\ variants'[call.lines[j].line.variantId].stock
                            = call.lines[j].variant.stock
                              - (IF j <= C21_Applied(call)
                                 THEN call.lines[j].line.quantity ELSE 0)
                /\ {i \in cartItems' : i.cartId = call.userId}
                      = {call.lines[j].line : j \in 1..Len(call.lines)}

\* C21: a createOrder that stops after the Order insert and before the cart
\* is cleared rolls nothing back: the order and its items stay, the stock
\* of the lines already decremented stays decremented, the stock of the
\* other lines is what the call loaded, and the cart still holds every line.
C21_NothingRolledBack == [][C21_Step]_vars

\* C21 witness: the same two-line cart was ordered twice, the second time
\* with success: the first call had stopped after taking variant 1 off the
\* stock and before taking variant 2, so variant 1 was deducted twice and
\* variant 2 once.
C21_Witness ==
    /\ inflight = <<>>
    /\ Len(orders) = 2
    /\ orders[1].userId = orders[2].userId
    /\ orders[1].items = orders[2].items
    /\ Len(orders[2].items) = 2
    /\ last.op = "orders.create" /\ last.status = "ok" /\ last.orderId = 2
    /\ variants[1].stock = SeedVariants[1].stock - 2
    /\ variants[2].stock = SeedVariants[2].stock - 1
    /\ cartItems = {}

\* the line a successful addToCart or updateCartItem has written
C22_Written(items, reply) ==
    {i \in ItemsOfCart(items, reply.userId) :
        IF reply.op = "cart.add" THEN i.variantId = reply.request.variantId
        ELSE i.id = reply.request.id}

C22_Step ==
    last'.op \in {"cart.add", "cart.update"} /\ last'.status = "ok" =>
        /\ Cardinality(C22_Written(cartItems', last')) = 1
        /\ \A w \in C22_Written(cartItems', last') : w.expiresAt = now + ExpiryDays
        /\ \A i \in ItemsOfCart(cartItems, last'.userId) \ C22_Written(cartItems, last') :
              i.expiresAt >= now => i \in cartItems'
        /\ \A i \in cartItems' \ C22_Written(cartItems', last') : i \in cartItems

\* C22: a successful addToCart or updateCartItem leaves exactly one line of
\* the cart written by it, with expiresAt = call time + 5 days; every other
\* unexpired line of the cart keeps its quantity and its expiresAt, and no
\* other line appears or changes.
C22_ExpiryPerItem == [][C22_Step]_vars

\* C22 witness: on day 5 the quantity of one line was updated while the
\* other line of the cart, created on day 0, was left as it was: the cart
\* holds one line that expires on day 10 and one that expires on day 5.
C22_Witness ==
    /\ last.op = "cart.update" /\ last.status = "ok" /\ now = ExpiryDays
    /\ \E i, j \in ItemsOfCart(cartItems, last.userId) :
          /\ i.id = last.request.id
          /\ i.expiresAt = now + ExpiryDays
          /\ j.id # i.id
          /\ j.expiresAt = ExpiryDays

\* the unexpired lines for variant v in the cart of u
C23_LiveLines(u, v) ==
    {i \in ItemsOfCart(cartItems, u) : i.variantId = v /\ i.expiresAt >= now}

C23_LiveQuantity(u, v) ==
    IF C23_LiveLines(u, v) = {} THEN 0
    ELSE (CHOOSE i \in C23_LiveLines(u, v) : TRUE).quantity

C23_Available(v) ==
    /\ v \in RowIds(variants)
    /\ variants[v].isActive
    /\ products[variants[v].productId].isActive

C23_AddStep ==
    last'.op = "cart.add" =>
        LET u == last'.userId
            v == last'.request.variantId
            wanted == C23_LiveQuantity(u, v) + last'.request.quantity
        IN  /\ ~C23_Available(v) => last'.status = "NotFound"
            /\ C23_Available(v) /\ wanted > variants[v].stock
                  => last'.status = "BadRequest"
            /\ C23_Available(v) /\ wanted <= variants[v].stock
                  => /\ last'.status = "ok"
                     /\ \E i \in ItemsOfCart(cartItems', u) :
                           i.variantId = v /\ i.quantity = wanted
            /\ last'.status # "ok"
                  => {i \in ItemsOfCart(cartItems', u) : i.variantId = v}
                        = {i \in ItemsOfCart(cartItems, u) : i.variantId = v}

C23_UpdateStep ==
    last'.op = "cart.update" =>
        LET found == {i \in cartItems : i.id = last'.request.id
                                         /\ i.cartId = last'.userId}
            wanted == last'.request.quantity
        IN  /\ found = {} => last'.status = "NotFound"
            /\ \A i \in found :
                  /\ i.expiresAt < now \/ wanted > variants[i.variantId].stock
                        => last'.status = "BadRequest" /\ i \in cartItems'
                  /\ i.expiresAt >= now /\ wanted <= variants[i.variantId].stock
                        => /\ last'.status = "ok"
                           /\ [i EXCEPT !.quantity = wanted,
                                         !.expiresAt = now + ExpiryDays] \in cartItems'

\* C23: addToCart succeeds exactly when the variant and its product are
\* active and the quantity of the unexpired line for the variant plus the
\* added quantity is at most the variant's stock; updateCartItem succeeds
\* exactly when the caller's item has not expired and the new quantity is
\* at most the stock.  An unavailable variant is answered NotFound,
\* insufficient stock and an expired item BadRequest, and a refused call
\* leaves the line's quantity and expiresAt as they were.
C23_WithinStock == [][C23_AddStep /\ C23_UpdateStep]_vars

\* C23 witness: an addToCart was refused with BadRequest although the added
\* quantity alone is in stock: the cart line already holds units, and the
\* sum exceeds the stock; the line is as it was.
C23_Witness ==
    /\ last.op = "cart.add" /\ last.status = "BadRequest"
    /\ C23_Available(last.request.variantId)
    /\ last.request.quantity <= variants[last.request.variantId].stock
    /\ C23_LiveQuantity(last.userId, last.request.variantId) > 0
    /\ C23_LiveQuantity(last.userId, last.request.variantId) + last.request.quantity
          > variants[last.request.variantId].stock

\* C24: with one request at a time, whatever createVariant, updateVariant,
\* addToCart, updateCartItem and createOrder calls were made, no variant
\* has a negative stock.
C24_StockNeverNegative == \A v \in RowIds(variants) : variants[v].stock >= 0

\* C24 witness: a cart line asks for more units than the variant has left
\* after a stock update, and the createOrder on that cart was refused: the
\* stock is untouched.
C24_Witness ==
    /\ last.op = "orders.create" /\ last.status = "BadRequest"
    /\ \E i \in ItemsOfCart(cartItems, last.userId) :
          /\ variants[i.variantId].isActive
          /\ variants[i.variantId].stock > 0
          /\ i.quantity > variants[i.variantId].stock

C25_Step ==
    last'.op = "orders.create" /\ last'.status = "ok" =>
        \A i \in ItemsOfCart(cartItems, last'.userId) :
            i.expiresAt < now =>
                /\ \A k \in 1..Len(orders'[last'.orderId].items) :
                      orders'[last'.orderId].items[k].variantId # i.variantId
                /\ variants'[i.variantId].stock = variants[i.variantId].stock

\* C25: a createOrder call creates no OrderItem and decrements no stock for
\* a cart line whose expiresAt is earlier than the time of the call.
C25_NoExpiredLineOrdered == [][C25_Step]_vars

\* the orders that hold an item for variant v
C26_OrdersOf(v) ==
    {o \in RowIds(orders) :
        \E k \in 1..Len(orders[o].items) : orders[o].items[k].variantId = v}

\* C26: however the createOrder calls of one user interleave, a cart line
\* (the cart is filled once, with one line per variant) ends in the items of
\* at most one order, and the stock of its variant goes down by its
\* quantity at most once.
C26_OrderedOnce ==
    \A v \in RowIds(variants) :
        /\ Cardinality(C26_OrdersOf(v)) <= 1
        /\ \A o \in C26_OrdersOf(v) :
              SeedVariants[v].stock - variants[v].stock
                 <= C19_UnitsInItems(orders[o].items, v)

C27_Step ==
    /\ last'.op = "products.updateVariant" /\ last'.status = "ok"
    /\ ~Has(last'.dto, "stock")
    /\ ~variants[last'.id].isActive
    => ~variants'[last'.id].isActive

\* C27: a variant that removeVariant has deactivated (an inactive variant:
\* create and update leave a variant with stock inactive only through
\* removeVariant) is still inactive after every successful updateVariant
\* whose body carries no stock.
C27_RemovedStaysInactive == [][C27_Step]_vars

C28_Step ==
    last'.op = "orders.updateStatus" =>
        /\ cartItems' = cartItems
        /\ \A v \in RowIds(variants) :
              /\ variants'[v].stock = variants[v].stock
              /\ variants'[v].isActive = variants[v].isActive

\* C28: an updateOrderStatus call, whatever the target status, CANCELADO
\* included, leaves the stock and isActive of every variant and every cart
\* item as they were.
C28_StockNotReturned == [][C28_Step]_vars

\* C28 witness: the order that took the last unit of variant 2 has just been
\* cancelled; variant 2 is still at stock 0 and inactive, and u1's cart line
\* is still there.
C28_Witness ==
    /\ last.op = "orders.updateStatus" /\ last.status = "ok" /\ last.orderId = 2
    /\ last.dto.status = "CANCELADO"
    /\ orders[2].status = "CANCELADO"
    /\ orders[2].items[1].variantId = 2
    /\ variants[2].stock = 0 /\ ~variants[2].isActive
    /\ cartItems # {}

\* C29: whatever product create, product update and updateSubcategory
\* calls were made, a product with a subcategoryId names a subcategory of
\* the product's own category.
C29_SubcategoryOfOwnCategory ==
    \A p \in RowIds(products) :
        products[p].subcategoryId # NoId =>
            subcategories[products[p].subcategoryId].categoryId = products[p].categoryId

\* the rows of user v: addresses with their ids, the cart, its lines, the
\* favorites
C30_RowsOf(v, addrs, cs, items, favs) ==
    [addresses |-> {<<a, addrs[a]>> : a \in {x \in RowIds(addrs) : addrs[x].userId = v}},
     cart |-> cs \cap {v},
     cartItems |-> {i \in items : i.cartId = v},
     favorites |-> {f \in favs : f.userId = v}]

\* the request answered by reply named a row of v by its id
C30_NamesRowOf(v, reply) ==
    \/ /\ reply.op \in {"address.update", "address.setAsDefault", "address.remove",
                         "address.findOne"}
       /\ reply.id \in RowIds(addresses) /\ addresses[reply.id].userId = v
    \/ /\ reply.op \in {"cart.update", "cart.remove"}
       /\ \E i \in cartItems : i.id = reply.request.id /\ i.cartId = v
    \/ /\ reply.op = "favorites.remove"
       /\ \E f \in favorites : f.id = reply.id /\ f.userId = v

\* the rows the answer carries belong to u
C30_AnswersOnly(u, reply) ==
    /\ reply.op \in {"cart.get", "cart.add", "cart.update", "cart.remove", "cart.clear"}
       /\ reply.status = "ok"
          => \A i \in reply.items : i.cartId = u
    /\ reply.op = "favorites.get" => \A f \in reply.items : f.userId = u
    /\ reply.op = "address.findAll"
          => \A k \in 1..Len(reply.items) : addresses[reply.items[k].id].userId = u

C30_Step ==
    /\ C30_RowsOf("u2", addresses', carts', cartItems', favorites')
          = C30_RowsOf("u2", addresses, carts, cartItems, favorites)
    /\ C30_NamesRowOf("u2", last') => last'.status = "NotFound"
    /\ C30_AnswersOnly("u1", last')

\* C30: every address, cart and favorites request of u1 leaves the addresses
\* (isDefault included), the cart, the cart lines and the favorites of u2 as
\* they were, answers with rows of u1 only, and answers NotFound when it
\* names an address, a cart line or a favorite of u2.
C30_OwnRowsOnly == [][C30_Step]_vars

\* C30 witness: u1, holding a cart line, asked to update the expired cart
\* line of u2 and was answered NotFound; the line, the default address and
\* the favorite of u2 are all in place.
C30_Witness ==
    /\ last.op = "cart.update" /\ last.status = "NotFound" /\ last.userId = "u1"
    /\ \E i \in cartItems :
          i.id = last.request.id /\ i.cartId = "u2" /\ i.expiresAt < now
    /\ ItemsOfCart(cartItems, "u1") # {}
    /\ addresses[2].userId = "u2" /\ addresses[2].isDefault
    /\ \E a \in RowIds(addresses) : addresses[a].userId = "u1" /\ addresses[a].isDefault
    /\ \E f \in favorites : f.userId = "u2"

====
